---- MODULE Spec2Model ----
(***************************************************************************)
(* Streaming relay of workflow-orchestrator: the chat updater             *)
(* (services/slack_client.py), the remote execution channel               *)
(* (services/ssh_executor.py), the turn coordinator (tasks/slack.py) and  *)
(* the in-process variant (services/claude.py).                           *)
(*                                                                         *)
(* Texts are Python strings.  A string is kept run-length encoded: a      *)
(* sequence of runs [c, n], n >= 1, adjacent runs of different c.  A run  *)
(* of an ordinary character ("a", "b", "nl", "sp") is n copies of it; a   *)
(* literal of the source (a marker, a placeholder) is one run named by    *)
(* the literal with n its length, so that len(), slicing, rfind(),        *)
(* lstrip() and + are computed as Python computes them on the real sizes. *)
(***************************************************************************)
EXTENDS Integers, Sequences, FiniteSets, TLC

\* ------------------------------------------------------------------ strings

Run(c, n) == [c |-> c, n |-> n]

Lit(s, n) == <<Run(s, n)>>

RECURSIVE TLen(_)
TLen(t) == IF t = <<>> THEN 0 ELSE Head(t).n + TLen(Tail(t))

RECURSIVE Norm(_)
Norm(t) ==
  IF t = <<>> THEN <<>>
  ELSE IF Head(t).n = 0 THEN Norm(Tail(t))
  ELSE LET r == Norm(Tail(t)) IN
       IF r # <<>> /\ Head(r).c = Head(t).c
       THEN <<Run(Head(t).c, Head(t).n + Head(r).n)>> \o Tail(r)
       ELSE <<Head(t)>> \o r

\* a + b
TCat(a, b) == Norm(a \o b)

\* t[:k], k >= 0
RECURSIVE TTake(_, _)
TTake(t, k) ==
  IF k <= 0 \/ t = <<>> THEN <<>>
  ELSE IF Head(t).n >= k THEN <<Run(Head(t).c, k)>>
  ELSE <<Head(t)>> \o TTake(Tail(t), k - Head(t).n)

\* t[k:], k >= 0
RECURSIVE TDrop(_, _)
TDrop(t, k) ==
  IF t = <<>> THEN <<>>
  ELSE IF k <= 0 THEN t
  ELSE IF Head(t).n > k THEN <<Run(Head(t).c, Head(t).n - k)>> \o Tail(t)
  ELSE TDrop(Tail(t), k - Head(t).n)

\* t[-k:], k > 0
TLast(t, k) == TDrop(t, IF TLen(t) > k THEN TLen(t) - k ELSE 0)

Min2(a, b) == IF a < b THEN a ELSE b

Max2(a, b) == IF a > b THEN a ELSE b

\* t.rfind(ch, lo, hi) with 0 <= lo: the highest index i, lo <= i < hi, i < len(t),
\* holding ch, or -1.  off is the index of t's first character.
RECURSIVE RFindFrom(_, _, _, _, _)
RFindFrom(t, ch, lo, hi, off) ==
  IF t = <<>> THEN -1
  ELSE LET last == Min2(off + Head(t).n - 1, hi - 1)
           here == IF Head(t).c = ch /\ last >= Max2(off, lo) THEN last ELSE -1
       IN  Max2(here, RFindFrom(Tail(t), ch, lo, hi, off + Head(t).n))

TRFind(t, ch, lo, hi) == RFindFrom(t, ch, lo, hi, 0)

Whitespace == {"nl", "sp"}

\* t.lstrip()
RECURSIVE TLStrip(_)
TLStrip(t) ==
  IF t = <<>> THEN <<>>
  ELSE IF Head(t).c \in Whitespace THEN TLStrip(Tail(t))
  ELSE t

\* the decimal digits of a natural number
RECURSIVE Digits(_)
Digits(k) == IF k < 10 THEN 1 ELSE 1 + Digits(k \div 10)

\* str(k): one run named by the number, as long as its digits
Num(k) == <<Run(ToString(k), Digits(k))>>


\* ------------------------------------------------------------ chat surface

\* The outcome of one HTTP call to the chat surface (SlackClient._request):
\* "ok"; "api": the answer is not ok, SlackAPIError; "http": raise_for_status or
\* the transport raises (no SlackAPIError).
AnyOutcome == {"ok", "api", "http"}

\* The calls whose callers treat every exception alike (reactions, plain posts)
\* are modelled with one kind of failure.
PlainOutcome == {"ok", "api"}

\* The chat calls that may fail while the agent's lines are streamed (the calls
\* before and after the stream are few and may all fail).
MaxFails == 1

Outcomes(f) == IF f < MaxFails THEN AnyOutcome ELSE {"ok"}

Failed(o) == IF o = "ok" THEN 0 ELSE 1

HOURGLASS == "hourglass_flowing_sand"

CHECKMARK == "white_check_mark"

ERROR == "x"

NoText == <<>>

\* one call as the chat surface saw it
Call(op, ts, text, name, res) ==
  [op |-> op, ts |-> ts, text |-> text, name |-> name, res |-> res]

PostCall(text, o) == Call("post", 0, text, "", o)

UpdateCall(ts, text, o) == Call("update", ts, text, "", o)

\* the thread after a call: a post appends a message (its ts is its index), an
\* update rewrites message ts
ApplyCall(th, c) ==
  IF c.res # "ok" THEN th
  ELSE IF c.op = "post" THEN Append(th, c.text)
  ELSE IF c.op = "update" THEN [th EXCEPT ![c.ts] = c.text]
  ELSE th

RECURSIVE ApplyCalls(_, _)
ApplyCalls(th, cs) ==
  IF cs = <<>> THEN th ELSE ApplyCalls(ApplyCall(th, Head(cs)), Tail(cs))

\* SlackClient.add_reaction: already_reacted is ignored, any other error raises
AddReactionRaises(o) == o # "ok"

AddReaction(rs, name, o) == IF o = "ok" THEN rs \cup {name} ELSE rs

\* SlackClient.remove_reaction: no_reaction is ignored, any other error raises
RemoveReactionRaises(o) == o # "ok"

RemoveReaction(rs, name, o) == IF o = "ok" THEN rs \ {name} ELSE rs

\* ------------------------------------------------- StreamingSlackUpdater

max_message_length == 39000

update_interval == 1

SplitMargin == 100

ContinuedMarker == Lit("nl", 2) \o Lit("_(continued...)_", 16)

ContinuationHeader(count) ==
  Lit("_(continuation ", 15) \o Num(count + 1) \o Lit(")_", 2) \o Lit("nl", 2)

NewUpdater ==
  [current_message |-> 0, last_update_time |-> 0, pending_text |-> NoText,
   message_count |-> 0]

\* what a call of the updater did: the updater after it, the chat calls it made,
\* and the exception it raised ("none", "api", "http")
Did(u, sent, exc) == [u |-> u, sent |-> sent, exc |-> exc]

\* start(initial_text); nextTs is the ts the chat surface gives the next post
UpdaterStart(u, text, tnow, nextTs, o) ==
  IF o = "ok"
  THEN Did([current_message |-> nextTs, last_update_time |-> tnow,
            pending_text |-> text, message_count |-> 1],
           <<PostCall(text, o)>>, "none")
  ELSE Did(u, <<PostCall(text, o)>>, o)

SplitTruncated(text) ==
  TCat(TTake(text, max_message_length - SplitMargin), ContinuedMarker)

SplitRemaining(text) == TDrop(text, max_message_length - SplitMargin)

\* _split_message(text): no call of it is guarded, a failure raises at once
SplitMessage(u, text, tnow, nextTs, o1, o2) ==
  LET c1 == UpdateCall(u.current_message, SplitTruncated(text), o1)
      c2 == PostCall(TCat(ContinuationHeader(u.message_count), SplitRemaining(text)), o2)
  IN  IF o1 # "ok" THEN Did(u, <<c1>>, o1)
      ELSE IF o2 # "ok" THEN Did(u, <<c1, c2>>, o2)
      ELSE Did([u EXCEPT !.current_message = nextTs,
                         !.message_count = u.message_count + 1,
                         !.last_update_time = tnow],
               <<c1, c2>>, "none")

\* whether update() goes on to write (rate limiting)
UpdateDue(u, force, tnow) == force \/ ~(tnow - u.last_update_time < update_interval)

\* whether update() splits
NeedsSplit(text) == TLen(text) > max_message_length

\* update(text, force)
UpdaterUpdate(u, text, force, tnow, nextTs, o1, o2) ==
  IF u.current_message = 0 THEN UpdaterStart(u, text, tnow, nextTs, o1)
  ELSE LET u1 == [u EXCEPT !.pending_text = text] IN
       IF ~UpdateDue(u, force, tnow) THEN Did(u1, <<>>, "none")
       ELSE IF NeedsSplit(text) THEN SplitMessage(u1, text, tnow, nextTs, o1, o2)
       ELSE LET c == UpdateCall(u.current_message, text, o1) IN
            IF o1 = "ok" THEN Did([u1 EXCEPT !.last_update_time = tnow], <<c>>, "none")
            ELSE IF o1 = "api" THEN Did(u1, <<c>>, "none")
            ELSE Did(u1, <<c>>, o1)

\* finalize: final_text = text or self._pending_text
FinalizeText(u, text) == IF text # NoText THEN text ELSE u.pending_text

FinalizeRetries == 3

\* ----------------------------------------------------- ClaudeStreamParser

NoStats == <<>>

\* StreamState()
NewParserState ==
  [current_text |-> NoText, tool_notifications |-> <<>>, files_read |-> 0,
   files_edited |-> 0, files_written |-> 0, commands_run |-> 0, searches |-> 0,
   stats |-> NoStats, is_complete |-> FALSE, is_error |-> FALSE]

\* A line of the agent's output, as the parser tells lines apart:
\*   "noise"     not JSON (json.loads raises), or JSON of an unknown type
\*   "busy"      not JSON either: the agent's "... already in use" message
\*   "system", "user"   records that change no text and no count
\*   "text"      an assistant record whose text blocks join to text
\*   "tool"      an assistant record with one tool_use block (name, target)
\*   "result"    the terminal record (is_error, stats)
LineOf(kind, text, name, is_error, stats) ==
  [kind |-> kind, text |-> text, name |-> name, is_error |-> is_error, stats |-> stats]

ResultStats(duration_ms, cost_e4, input_tokens, output_tokens) ==
  [duration_ms |-> duration_ms, total_cost_e4 |-> cost_e4,
   input_tokens |-> input_tokens, output_tokens |-> output_tokens]

\* len(name) of the tool names the streams here use
ToolNameLen(name) == IF name = "TodoWrite" THEN 9 ELSE IF name = "Task" THEN 4 ELSE 5

\* _track_tool_use's notification for a tool with a target (file_path is set)
ToolNotification(name, target) ==
  IF name = "Read" THEN Lit("_Reading ", 9) \o target \o Lit("_", 1)
  ELSE IF name = "Edit" THEN Lit("_Editing ", 9) \o target \o Lit("_", 1)
  ELSE IF name = "Write" THEN Lit("_Writing ", 9) \o target \o Lit("_", 1)
  ELSE IF name = "Bash" THEN Lit("_Running: ", 10) \o target \o Lit("_", 1)
  ELSE IF name \in {"Glob", "Grep"} THEN Lit("_Searching: ", 12) \o target \o Lit("_", 1)
  ELSE IF name = "WebFetch" THEN Lit("_Fetching: ", 11) \o target \o Lit("_", 1)
  ELSE IF name = "WebSearch" THEN Lit("_Searching web: ", 16) \o target \o Lit("_", 1)
  ELSE IF name = "Task" THEN Lit("_Launching agent_", 17)
  ELSE Lit("_Using ", 7) \o Lit(name, ToolNameLen(name)) \o Lit("_", 1)

\* _track_tool_use
TrackToolUse(st, name, target) ==
  [st EXCEPT
     !.files_read = IF name = "Read" THEN @ + 1 ELSE @,
     !.files_edited = IF name = "Edit" THEN @ + 1 ELSE @,
     !.files_written = IF name = "Write" THEN @ + 1 ELSE @,
     !.commands_run = IF name = "Bash" THEN @ + 1 ELSE @,
     !.searches = IF name \in {"Glob", "Grep"} THEN @ + 1 ELSE @,
     !.tool_notifications = Append(@, Norm(ToolNotification(name, target)))]

\* parse_line: the parser's state after the line
ParseState(st, line) ==
  IF line.kind = "text" THEN
       IF line.text # NoText THEN [st EXCEPT !.current_text = line.text] ELSE st
  ELSE IF line.kind = "tool" THEN TrackToolUse(st, line.name, line.text)
  ELSE IF line.kind = "result" THEN
       [st EXCEPT !.stats = <<line.stats>>, !.is_complete = TRUE,
                  !.is_error = line.is_error]
  ELSE st

\* parse_line: the type of the event returned, "none" for no event
ParseEvent(line) ==
  IF line.kind \in {"text", "tool"} THEN "assistant"
  ELSE IF line.kind \in {"system", "user", "result"} THEN line.kind
  ELSE "none"

\* A content block of an assistant record: a text block carries text, a
\* tool_use block a tool name and its target (text is the target)
TextBlock(text) == [type |-> "text", text |-> text, name |-> ""]

ToolUseBlock(name, target) == [type |-> "tool_use", text |-> target, name |-> name]

\* "".join(text_parts): the text blocks of the record, in order
RECURSIVE JoinTextParts(_)
JoinTextParts(content) ==
  IF content = <<>> THEN NoText
  ELSE IF Head(content).type = "text"
         THEN TCat(Head(content).text, JoinTextParts(Tail(content)))
         ELSE JoinTextParts(Tail(content))

\* the loop over the blocks: every tool_use block is tracked, in order
RECURSIVE TrackBlocks(_, _)
TrackBlocks(st, content) ==
  IF content = <<>> THEN st
  ELSE TrackBlocks(IF Head(content).type = "tool_use"
                     THEN TrackToolUse(st, Head(content).name, Head(content).text)
                     ELSE st,
                   Tail(content))

\* _parse_assistant_event with full_text appended to the text so far
AppendAssistantEvent(st, content) ==
  LET full_text == JoinTextParts(content)
  IN  [TrackBlocks(st, content) EXCEPT !.current_text = TCat(@, full_text)]

\* _parse_assistant_event: the parser's state after a record with these blocks
ParseAssistantEvent(st, content) ==
  LET full_text == JoinTextParts(content)
  IN  IF full_text # NoText
        THEN [TrackBlocks(st, content) EXCEPT !.current_text = full_text]
        ELSE TrackBlocks(st, content)

\* the result record counted as an error by its flag alone
FlaggedAsError(is_error, subtype) == is_error

\* _parse_result_event: data.get("is_error", False) or subtype == "error"
ResultIsError(is_error, subtype) == is_error \/ subtype = "error"

\* _parse_result_event: the parser's state after the terminal record
ParseResultEvent(st, is_error, stats) ==
  [st EXCEPT !.stats = <<stats>>, !.is_complete = TRUE, !.is_error = is_error]

\* "x" if k = 1, "xs" otherwise: f"...{'s' if k > 1 else ''}"
Plural(word, n, k) == IF k > 1 THEN Lit(word, n) \o Lit("s", 1) ELSE Lit(word, n)

RECURSIVE JoinParts(_, _)
JoinParts(parts, sep) ==
  IF parts = <<>> THEN <<>>
  ELSE IF Len(parts) = 1 THEN Head(parts)
  ELSE Head(parts) \o sep \o JoinParts(Tail(parts), sep)

\* get_summary
GetSummary(st) ==
  LET parts ==
        (IF st.files_read > 0
           THEN <<Lit("read ", 5) \o Num(st.files_read) \o Plural(" file", 5, st.files_read)>>
           ELSE <<>>)
        \o (IF st.files_edited > 0
           THEN <<Lit("edited ", 7) \o Num(st.files_edited) \o Plural(" file", 5, st.files_edited)>>
           ELSE <<>>)
        \o (IF st.files_written > 0
           THEN <<Lit("wrote ", 6) \o Num(st.files_written) \o Plural(" file", 5, st.files_written)>>
           ELSE <<>>)
        \o (IF st.commands_run > 0
           THEN <<Lit("ran ", 4) \o Num(st.commands_run) \o Plural(" command", 8, st.commands_run)>>
           ELSE <<>>)
        \o (IF st.searches > 0
           THEN <<Num(st.searches) \o
                  (IF st.searches > 1 THEN Lit(" searches", 9) ELSE Lit(" search", 7))>>
           ELSE <<>>)
  IN  IF parts = <<>> THEN NoText
      ELSE Norm(Lit("Done: ", 6) \o JoinParts(parts, Lit(", ", 2)))

\* f"{total:,}": the digits and a comma for every three of them
Grouped(k) == <<Run(ToString(k), Digits(k) + ((Digits(k) - 1) \div 3))>>

\* get_stats_line with the cost shown whatever it is
StatsLineWithCost(st) ==
  IF st.stats = NoStats THEN NoText
  ELSE LET s == st.stats[1]
           tenths == (s.duration_ms + 50) \div 100
           total == s.input_tokens + s.output_tokens
           parts ==
             <<Num(tenths \div 10) \o Lit(".", 1) \o Num(tenths % 10) \o Lit("s", 1)>>
             \o <<Lit("$", 1) \o Num(s.total_cost_e4 \div 10000) \o Lit(".", 1)
                  \o <<Run(ToString(s.total_cost_e4 % 10000), 4)>> >>
             \o (IF total > 0 THEN <<Grouped(total) \o Lit(" tokens", 7)>> ELSE <<>>)
       IN  Norm(JoinParts(parts, Lit(" | ", 3)))

\* get_stats_line: duration_ms / 1000 to one decimal, the cost to four decimals
\* when positive, the total tokens when positive
GetStatsLine(st) ==
  IF st.stats = NoStats THEN NoText
  ELSE LET s == st.stats[1]
           tenths == (s.duration_ms + 50) \div 100
           total == s.input_tokens + s.output_tokens
           parts ==
             <<Num(tenths \div 10) \o Lit(".", 1) \o Num(tenths % 10) \o Lit("s", 1)>>
             \o (IF s.total_cost_e4 > 0
                 THEN <<Lit("$", 1) \o Num(s.total_cost_e4 \div 10000) \o Lit(".", 1)
                        \o <<Run(ToString(s.total_cost_e4 % 10000), 4)>> >>
                 ELSE <<>>)
             \o (IF total > 0 THEN <<Grouped(total) \o Lit(" tokens", 7)>> ELSE <<>>)
       IN  Norm(JoinParts(parts, Lit(" | ", 3)))

\* the text the coordinator shows for an assistant event: the text, and the
\* last three tool notifications when there are any
LastThree(ns) == IF Len(ns) > 3 THEN SubSeq(ns, Len(ns) - 2, Len(ns)) ELSE ns

DisplayText(st, text) ==
  IF st.tool_notifications = <<>> THEN text
  ELSE TCat(text, Lit("nl", 2) \o JoinParts(LastThree(st.tool_notifications), Lit("nl", 1)))

NoResponse == Lit("_(No response)_", 15)

\* the final message: the running text or the placeholder, the summary and the
\* stats line
FinalText(st) ==
  LET base == IF st.current_text # NoText THEN st.current_text ELSE NoResponse
      summary == GetSummary(st)
      stats_line == GetStatsLine(st)
      t1 == IF summary # NoText
              THEN TCat(base, Lit("nl", 2) \o Lit("_", 1) \o summary \o Lit("_", 1))
              ELSE base
  IN  IF stats_line # NoText
        THEN TCat(t1, Lit("nl", 1) \o Lit("_", 1) \o stats_line \o Lit("_", 1))
        ELSE t1

\* ------------------------------------------------------------- the agent

\* The texts of the agent's assistant records.  Every record carries the whole
\* text so far, so the texts of one run grow: AgentTexts[k] is a prefix of
\* AgentTexts[k + 1].  The second is longer than one message, the third longer
\* still (and both shorter than two messages).
AgentTexts ==
  << <<Run("a", 60)>>,
     <<Run("a", 38000), Run("nl", 1), Run("b", 1100)>>,
     <<Run("a", 38000), Run("nl", 1), Run("b", 1300)>> >>

TextLine(k) == LineOf("text", AgentTexts[k], "", FALSE, NoStats)

ToolLine == LineOf("tool", Lit("make test", 9), "Bash", FALSE, NoStats)

NoiseLine == LineOf("noise", NoText, "", FALSE, NoStats)

BusyLine == LineOf("busy", NoText, "", FALSE, NoStats)

ResultLine(is_error) ==
  LineOf("result", NoText, "", is_error, ResultStats(1500, 200, 120, 40))

\* the lines of a turn's agent runs, the retry's included
MaxLines == 2

\* ------------------------------------------- ClaudeProcessor (services/claude.py)

SLACK_MAX_MESSAGE_LENGTH == 39000

STREAM_UPDATE_INTERVAL_MS == 500

STREAM_MIN_CHARS == 50

STREAM_TYPING_INDICATOR == Lit("...", 3)

\* SlackMessenger.update cuts a text longer than one message
MessengerUpdateText(text) ==
  IF TLen(text) > SLACK_MAX_MESSAGE_LENGTH
    THEN TCat(TTake(text, SLACK_MAX_MESSAGE_LENGTH), Lit("\n\n_[Message truncated]_", 23))
    ELSE text

\* SlackMessenger.update(ts, text): True when the answer is ok; nothing is raised
MessengerUpdate(ts, text, o) == UpdateCall(ts, MessengerUpdateText(text), o)

\* SlackMessenger.post(text): the ts, or None; nothing is raised
MessengerPost(text, o) == PostCall(text, o)

\* dataclass StreamState (0 is the None of msg_ts)
NewStreamState ==
  [text |-> NoText, msg_ts |-> 0, last_update_ms |-> 0, last_streamed_len |-> 0,
   continuation_count |-> 0, all_message_ts |-> <<>>]

ContinuedNext == Lit("\n\n_[Continued in next message...]_", 34)

ContinuationTag(count) == Lit("_[Continuation ", 15) \o Num(count) \o Lit("]_\n\n", 4)

SafeCutoff == SLACK_MAX_MESSAGE_LENGTH - 200

\* _split_and_continue: the break point
BreakPoint(text) ==
  LET newline_pos == TRFind(text, "nl", SafeCutoff - 500, SafeCutoff)
      space_pos == TRFind(text, "sp", SafeCutoff - 100, SafeCutoff)
  IN  IF newline_pos > 0 THEN newline_pos
      ELSE IF space_pos > 0 THEN space_pos
      ELSE SafeCutoff

\* what one call on the stream state did: the state after it, the chat calls it
\* made and the value it returned
Streamed(st, sent, ret) == [s |-> st, sent |-> sent, ret |-> ret]

\* _split_and_continue(display_text, timeout)
SplitAndContinue(st, o) ==
  LET break_point == BreakPoint(st.text)
      finalized == TCat(TTake(st.text, break_point), ContinuedNext)
      remainder == TLStrip(TDrop(st.text, break_point))
      count == st.continuation_count + 1
  IN  Streamed([st EXCEPT !.all_message_ts = IF st.msg_ts # 0 THEN Append(@, st.msg_ts)
                                              ELSE @,
                          !.continuation_count = count,
                          !.text = TCat(ContinuationTag(count), remainder),
                          !.msg_ts = 0,
                          !.last_streamed_len = 0],
               IF st.msg_ts # 0 THEN <<MessengerUpdate(st.msg_ts, finalized, o)>> ELSE <<>>,
               TRUE)

\* _update_stream_if_needed(force) at time tnow; nextTs is the ts a post gets
UpdateStreamIfNeeded(st, force, tnow, nextTs, o) ==
  LET new_chars == TLen(st.text) - st.last_streamed_len
      time_elapsed == tnow - st.last_update_ms
      should_update == force \/ (new_chars >= STREAM_MIN_CHARS
                                 /\ time_elapsed >= STREAM_UPDATE_INTERVAL_MS)
      display_text == IF force THEN st.text ELSE TCat(st.text, STREAM_TYPING_INDICATOR)
      after == [st EXCEPT !.last_update_ms = tnow, !.last_streamed_len = TLen(st.text)]
  IN  IF ~should_update \/ st.text = NoText THEN Streamed(st, <<>>, TRUE)
      ELSE IF TLen(display_text) > SLACK_MAX_MESSAGE_LENGTH THEN SplitAndContinue(st, o)
      ELSE IF st.msg_ts # 0
        THEN Streamed(after, <<MessengerUpdate(st.msg_ts, display_text, o)>>, o = "ok")
        ELSE Streamed([after EXCEPT !.msg_ts = IF o = "ok" THEN nextTs ELSE 0],
                      <<MessengerPost(display_text, o)>>, o = "ok")

\* _finalize_stream: the text of the fallback post
FallbackText(text) ==
  IF TLen(text) > SLACK_MAX_MESSAGE_LENGTH
    THEN TCat(Lit("...\n\n", 5), TLast(text, SLACK_MAX_MESSAGE_LENGTH - 10))
    ELSE text

\* The pieces of text the agent's assistant records carry (ClaudeProcessor adds
\* each to stream_state.text): a short one; one longer than a message with a
\* newline before the cut-off; one longer than a message without white space; one
\* just under a message, and a tail shorter than STREAM_MIN_CHARS.
Chunks ==
  { <<Run("a", 60)>>,
    <<Run("a", 38500), Run("nl", 1), Run("b", 700)>>,
    <<Run("a", 39100)>>,
    <<Run("a", 38990)>>,
    <<Run("b", 20)>> }

\* the lines ClaudeProcessor reads in one run
MaxProcLines == 2

\* ProcessStats(): the counts of the tool uses
ClaudeStats ==
  [reads |-> 0, edits |-> 0, writes |-> 0, commands |-> 0, globs |-> 0, greps |-> 0,
   web_fetches |-> 0, web_searches |-> 0, tasks |-> 0, mcp_calls |-> 0]

\* the ClaudeProcessor: where process() is; stream_state; the session flags of
\* the launches; the lines read; _finalize_stream's attempt; the splits made
\* (the text before, the calls made, the text after); the success passed to
\* _finish_reactions
NewProcessor ==
  [pc |-> "begin", s |-> NewStreamState, flags |-> <<>>, lines |-> 0, attempt |-> 0,
   splits |-> <<>>, success |-> "none", said |-> NoText,
   stats |-> ClaudeStats, reported |-> {}, items |-> <<>>]

VARIABLES
  pc,         \* where process_slack_message is
  now,        \* time.time(), in seconds
  thread,     \* the bot's messages in the thread; a message's ts is its index
  reactions,  \* the reactions on the originating message
  calls,      \* every call made to the chat surface, in order
  fails,      \* the chat calls that failed while lines were streamed
  parser,     \* ClaudeStreamParser.state
  updater,    \* the StreamingSlackUpdater
  procs,      \* the agent processes launched: [flag, state, signalled, lines]
  turn,       \* the coordinator's locals: use_resume, the exception, final_text, ...
  msgBusy,    \* the user's message itself contains "already in use"
  cp,         \* the ClaudeProcessor: where process() is, its stream_state, its runs
  clock_ms,   \* time.time() * 1000 as ClaudeProcessor reads it
  parsed,     \* the last call of parse_line when the parser is fed alone: the
              \* line given and what the call returned
  pipe,       \* the agent's stdout: the lines written and not yet read
  loop,       \* the loop over the agent's lines, step by step: where it is, the
              \* lines written, read, handled, the chat calls issued and in flight
  entries,    \* RateLimiter._entries: the requests recorded for each key
  checks,     \* the is_allowed calls that returned, in order: key, now, result
  callers,    \* the is_allowed calls in progress, one for each thread
  queue,      \* the process_slack_message tasks the webhook has enqueued
  hooked,     \* the webhook's last request and its response
  upload      \* the last call of extract_files: its files_data and its result

vars == <<pc, now, thread, reactions, calls, fails, parser, updater, procs, turn, msgBusy,
          cp, clock_ms, parsed, pipe, loop, entries, checks, callers, queue, hooked, upload>>

\* the state outside a turn: process_slack_message, the executor and
\* ClaudeProcessor leave it alone
edgeVars == <<parsed, pipe, loop, entries, checks, callers, queue, hooked, upload>>

\* the state of the webhook and of the rate limiter it owns
gateVars == <<entries, checks, callers, queue, hooked, upload>>

\* the state of the ClaudeProcessor, which process_slack_message does not use
procVars == <<cp, clock_ms>>

\* the state of process_slack_message, which ClaudeProcessor does not use
turnVars == <<pc, now, parser, updater, procs, turn, msgBusy>>

\* a call of parse_line: the kind of the line ("blank"; "notjson", no JSON;
\* "scalar", JSON that is no object: a number, a string, an array, null;
\* "unknown", an object of no known type; "assistant"; "result"), the content
\* blocks of an assistant record, the is_error flag and the subtype of a result
\* record ("none" when it has none), and what the call returned: the type of
\* the event, "none" for no event, "raised" for an exception
ParseCall(kind, content, is_error, subtype, ret) ==
  [kind |-> kind, content |-> content, is_error |-> is_error, subtype |-> subtype,
   ret |-> ret]

\* the rate limiter's keys ("channel:user") and the threads that may call it
Keys == {"C1:U1", "C1:U2"}

Threads == {1, 2}

\* a thread that is in no is_allowed call; in a call: at, the statement it is
\* about to execute, key, t (its now), kept (the list it has filtered)
Idle == [at |-> "idle", key |-> "", t |-> 0, kept |-> <<>>]

\* no request handled yet
NoRequest == [n |-> 0, status |-> 0]

\* no attachment list handed to extract_files yet
NoUpload == [files_data |-> <<>>, valid_files |-> <<>>, done |-> FALSE]

\* the loop "for line in executor.execute_claude_streaming(...)": at, where
\* the task's one thread is ("read": in the generator, reading the pipe;
\* "handle": parse_line and updater.update; "call": inside a chat call, waiting
\* for the answer); written, the lines the agent wrote; line, the line in
\* hand; read, handled and issued, the numbers of the lines read, handled and
\* shown by a chat call, in the order it happened; inflight, the chat calls
\* sent and not yet answered
NewLoop == [at |-> "read", written |-> 0, line |-> 0, read |-> <<>>, handled |-> <<>>,
            issued |-> <<>>, inflight |-> 0]

NoCall == ParseCall("none", <<>>, FALSE, "none", "none")

\* turn: use_resume; block, the loop over the lines the code is in (1, or 2 for
\* the retry); exc, the exception caught by the outer except clause; final_text;
\* attempt, finalize's loop counter; report, the status returned ("none" before);
\* fin_from and fin_to, the places in calls where finalize began and ended, and
\* fin_over, whether it returned or raised
NoExc == [kind |-> "none", busy |-> FALSE]

Exc(kind, busy) == [kind |-> kind, busy |-> busy]

NewTurn ==
  [use_resume |-> FALSE, block |-> 0, exc |-> NoExc,
   final_text |-> NoText, attempt |-> 0, report |-> "none",
   fin_from |-> 0, fin_to |-> 0, fin_over |-> FALSE]

Init ==
  /\ pc = "begin"
  /\ now = 0
  /\ thread = <<>>
  /\ reactions = {}
  /\ calls = <<>>
  /\ fails = 0
  /\ parser = NewParserState
  /\ updater = NewUpdater
  /\ procs = <<>>
  /\ turn = NewTurn
  /\ msgBusy \in BOOLEAN
  /\ cp = NewProcessor
  /\ clock_ms = STREAM_UPDATE_INTERVAL_MS
  /\ parsed = NoCall
  /\ pipe = <<>>
  /\ loop = NewLoop
  /\ entries = [key \in Keys |-> <<>>]
  /\ checks = <<>>
  /\ callers = [th \in Threads |-> Idle]
  /\ queue = <<>>
  /\ hooked = NoRequest
  /\ upload = NoUpload

NumFailed(cs) == Cardinality({i \in 1..Len(cs) : cs[i].res # "ok"})

\* the chat surface after the calls cs
Chat(cs) ==
  /\ calls' = calls \o cs
  /\ thread' = ApplyCalls(thread, cs)

React(op, name, o) ==
  /\ calls' = Append(calls, Call(op, 0, NoText, name, o))
  /\ reactions' = IF op = "add" THEN AddReaction(reactions, name, o)
                  ELSE RemoveReaction(reactions, name, o)
  /\ UNCHANGED thread

\* the outer except clause missing: the exception leaves the task
Propagate(e) ==
  /\ pc' = "raised"
  /\ turn' = [turn EXCEPT !.exc = e]

\* an exception reaches the outer "except Exception" of process_slack_message
ToHandler(e) ==
  /\ pc' = "except"
  /\ turn' = [turn EXCEPT !.exc = e]

\* slack_client.add_reaction(channel_id, ts, Reaction.HOURGLASS)
TaskBegin ==
  /\ pc = "begin"
  /\ \E o \in PlainOutcome :
       /\ React("add", HOURGLASS, o)
       /\ IF AddReactionRaises(o)
            THEN ToHandler(Exc(o, FALSE))
            ELSE pc' = "start" /\ UNCHANGED turn
  /\ UNCHANGED <<now, fails, parser, updater, procs, msgBusy, procVars, edgeVars>>

\* updater.start("...")
TaskStart ==
  /\ pc = "start"
  /\ \E o \in PlainOutcome :
       LET d == UpdaterStart(updater, Lit("...", 3), now, Len(thread) + 1, o) IN
       /\ Chat(d.sent)
       /\ updater' = d.u
       /\ IF d.exc # "none"
            THEN ToHandler(Exc(d.exc, FALSE))
            ELSE pc' = "stream" /\ turn' = [turn EXCEPT !.block = 1]
  /\ UNCHANGED <<now, reactions, fails, parser, procs, msgBusy, procVars, edgeVars>>

\* ------------------------------------------------------------ SSHExecutor

\* execute_claude_streaming's session handling: the arguments it adds to
\* claude_args, --resume when resume_session is given, else --session-id when
\* session_id is given
SessionArgs(has_session_id, has_resume_session) ==
  IF has_resume_session THEN <<"resume">>
  ELSE IF has_session_id THEN <<"session-id">>
  ELSE <<>>

\* the session flag of the command line
SessionFlag(has_session_id, has_resume_session) ==
  LET args == SessionArgs(has_session_id, has_resume_session)
  IN  IF args = <<>> THEN "none" ELSE args[1]

\* session_id and resume_session passed unconditionally
NewSessionArgs(block, use_resume) == SessionArgs(TRUE, FALSE)

\* the session arguments of the launch of the first loop (session_id unless
\* use_resume, resume_session if use_resume) and of the retry (resume_session)
LaunchArgs(block, use_resume) ==
  IF block = 1 THEN SessionArgs(~use_resume, use_resume)
  ELSE SessionArgs(FALSE, TRUE)

\* the flag of the launch of the first loop and of the retry
LaunchFlag(block, use_resume) ==
  LET args == LaunchArgs(block, use_resume)
  IN  IF args = <<>> THEN "none" ELSE args[1]

\* How the agent process ends once its output is closed: "exit0"; "exit1", a
\* non-zero status; "exit_busy", a non-zero status with the "already in use"
\* message on stderr; "timeout", no exit within SSH_TIMEOUT_SECONDS.
ExitKinds(flag) ==
  {"exit0", "exit1", "timeout"} \cup (IF flag = "session-id" THEN {"exit_busy"} ELSE {})

\* what execute_claude_streaming raises after the last line: TimeoutExpired from
\* process.wait (its text holds the command line, so the user's message); a
\* non-zero returncode is logged
WaitRaises(kind, busyMsg) ==
  IF kind = "timeout" THEN Exc("timeout", busyMsg) ELSE NoExc

\* the state the process is left in
ProcessEnd(kind) == IF kind = "timeout" THEN "killed" ELSE "exited"

\* an agent process: its session flag, its state ("unstarted", "running",
\* "exited", "killed", "hung"), the lines read from it, the index of its last text, whether
\* it signalled that the session id is in use, how it ended ("none" while it
\* runs), and how the line sequence ended for the caller ("open", "normal",
\* "raised", "abandoned")
NewProc(flag) == [flag |-> flag, state |-> "running", lines |-> 0, k |-> 0,
                  signalled |-> FALSE, exit |-> "none", ended |-> "open"]

\* the lines a running agent may write next
AgentLines(p) ==
  {TextLine(k) : k \in Max2(1, p.k)..Len(AgentTexts)}
  \cup {ToolLine, NoiseLine, ResultLine(FALSE), ResultLine(TRUE)}
  \cup (IF p.flag = "session-id" THEN {BusyLine} ELSE {})

\* ------------------------------------------------- process_slack_message

\* "already in use" in error_str and not use_resume
ShouldRetry(e, use_resume) == e.busy /\ ~use_resume

\* an exception leaves the loop over the lines: the first loop's except clause
\* retries or re-raises, the retry's loop is not guarded
RaiseInBlock(e) ==
  IF turn.block = 1 /\ ShouldRetry(e, turn.use_resume)
    THEN /\ pc' = "stream"
         /\ turn' = [turn EXCEPT !.use_resume = TRUE, !.block = 2]
    ELSE ToHandler(e)

\* the generator's first step: subprocess.Popen(ssh_cmd, ...)
Launch ==
  /\ pc = "stream"
  /\ Len(procs) < turn.block
  /\ \E ok \in BOOLEAN :
       IF ok
         THEN /\ procs' = Append(procs, NewProc(LaunchFlag(turn.block, turn.use_resume)))
              /\ UNCHANGED <<pc, turn>>
         ELSE /\ procs' = Append(procs, [NewProc(LaunchFlag(turn.block, turn.use_resume))
                                           EXCEPT !.state = "unstarted", !.ended = "raised"])
              /\ RaiseInBlock(Exc("oserror", FALSE))
  /\ UNCHANGED <<now, thread, reactions, calls, fails, parser, updater, msgBusy, procVars, edgeVars>>

RECURSIVE LinesRead(_)
LinesRead(ps) == IF ps = <<>> THEN 0 ELSE Head(ps).lines + LinesRead(Tail(ps))

\* one line: the generator yields it, parse_line parses it, and an assistant
\* event with text is shown through updater.update.  The clock is read by
\* update alone, so the time that passes is counted on the lines that call it.
StreamLine ==
  /\ pc = "stream"
  /\ Len(procs) = turn.block
  /\ procs[Len(procs)].state = "running"
  /\ LinesRead(procs) < MaxLines
  /\ \E line \in AgentLines(procs[Len(procs)]), dt \in {0, 1},
        o1 \in Outcomes(fails), o2 \in Outcomes(fails) :
       LET st == ParseState(parser, line)
           shows == ParseEvent(line) = "assistant" /\ line.kind = "text"
                    /\ line.text # NoText
           d == IF shows
                  THEN UpdaterUpdate(updater, DisplayText(st, line.text), FALSE,
                                     now + dt, Len(thread) + 1, o1, o2)
                  ELSE Did(updater, <<>>, "none")
       IN  /\ NumFailed(d.sent) = Failed(o1) + Failed(o2)
           /\ fails + NumFailed(d.sent) <= MaxFails
           /\ ~shows => dt = 0
           /\ now' = now + dt
           /\ fails' = fails + NumFailed(d.sent)
           /\ parser' = st
           /\ updater' = d.u
           /\ Chat(d.sent)
           /\ procs' = [procs EXCEPT ![Len(procs)] =
                          [@ EXCEPT !.lines = @ + 1,
                                    !.k = IF line.kind = "text"
                                            THEN CHOOSE k \in 1..Len(AgentTexts) :
                                                   AgentTexts[k] = line.text
                                            ELSE @,
                                    !.ended = IF d.exc # "none" THEN "abandoned" ELSE @,
                                    !.signalled = @ \/ line.kind = "busy"]]
           /\ IF d.exc # "none"
                THEN RaiseInBlock(Exc(d.exc, FALSE))
                ELSE UNCHANGED <<pc, turn>>
  /\ UNCHANGED <<reactions, msgBusy, procVars, edgeVars>>

\* the agent closes its output: process.wait(timeout), the returncode check, and
\* after a normal end the final text is built
StreamEnd ==
  /\ pc = "stream"
  /\ Len(procs) = turn.block
  /\ procs[Len(procs)].state = "running"
  /\ \E kind \in ExitKinds(procs[Len(procs)].flag) :
       LET e == WaitRaises(kind, msgBusy) IN
       /\ procs' = [procs EXCEPT ![Len(procs)] =
                      [@ EXCEPT !.state = ProcessEnd(kind),
                                !.exit = kind,
                                !.ended = IF e # NoExc THEN "raised" ELSE "normal",
                                !.signalled = @ \/ kind = "exit_busy"]]
       /\ IF e # NoExc
            THEN RaiseInBlock(e)
            ELSE /\ pc' = "finalize"
                 /\ turn' = [turn EXCEPT !.final_text = FinalText(parser),
                                         !.attempt = 0,
                                         !.fin_from = Len(calls)]
  /\ UNCHANGED <<now, thread, reactions, calls, fails, parser, updater, msgBusy, procVars, edgeVars>>

\* The agent stops writing without closing its output or exiting (state
\* "hung").  The generator is then inside "for line in process.stdout", a read
\* that has no timeout: process.wait(timeout=SSH_TIMEOUT_SECONDS) is reached
\* only after the output is closed, so no step of the executor is enabled.
AgentHangs ==
  /\ pc = "stream"
  /\ Len(procs) = turn.block
  /\ procs[Len(procs)].state = "running"
  /\ procs' = [procs EXCEPT ![Len(procs)] = [@ EXCEPT !.state = "hung"]]
  /\ UNCHANGED <<pc, turn, now, thread, reactions, calls, fails, parser, updater,
                 msgBusy, procVars, edgeVars>>

\* what finalize does after update attempt number attempt (from 0) ended o:
\* it returns the message, goes round the loop again, leaves the loop for the
\* fallback post, or lets the exception (no SlackAPIError) out
FinalizeAfter(attempt, o) ==
  IF o = "ok" THEN "return"
  ELSE IF o = "http" THEN "raise"
  ELSE IF attempt + 1 < FinalizeRetries THEN "retry"
  ELSE "fallback"

\* time.sleep(1) after a failed attempt that is not the last
FinalizeSleep(attempt) == IF attempt < FinalizeRetries - 1 THEN 1 ELSE 0

\* updater.finalize(final_text): one pass of its loop
Finalize ==
  /\ pc = "finalize"
  /\ \E o \in AnyOutcome :
       LET c == UpdateCall(updater.current_message,
                           FinalizeText(updater, turn.final_text), o)
           after == FinalizeAfter(turn.attempt, o)
       IN  /\ Chat(<<c>>)
           /\ now' = IF o = "api" THEN now + FinalizeSleep(turn.attempt) ELSE now
           /\ pc' = IF after = "return" THEN "react_remove"
                    ELSE IF after = "retry" THEN "finalize"
                    ELSE IF after = "fallback" THEN "fallback"
                    ELSE "except"
           /\ turn' = [turn EXCEPT
                         !.attempt = @ + 1,
                         !.exc = IF after = "raise" THEN Exc(o, FALSE) ELSE @,
                         !.fin_over = after \in {"return", "raise"},
                         !.fin_to = IF after \in {"return", "raise"}
                                      THEN Len(calls) + 1 ELSE @]
  /\ UNCHANGED <<reactions, fails, parser, updater, procs, msgBusy, procVars, edgeVars>>

\* updater.finalize: the fallback post after the loop
FinalizeFallback ==
  /\ pc = "fallback"
  /\ \E o \in PlainOutcome :
       /\ Chat(<<PostCall(FinalizeText(updater, turn.final_text), o)>>)
       /\ pc' = IF o = "ok" THEN "react_remove" ELSE "except"
       /\ turn' = [turn EXCEPT !.exc = IF o = "ok" THEN @ ELSE Exc(o, FALSE),
                               !.fin_over = TRUE,
                               !.fin_to = Len(calls) + 1]
  /\ UNCHANGED <<now, reactions, fails, parser, updater, procs, msgBusy, procVars, edgeVars>>

\* slack_client.remove_reaction(channel_id, ts, Reaction.HOURGLASS)
ReactRemove ==
  /\ pc = "react_remove"
  /\ \E o \in PlainOutcome :
       /\ React("remove", HOURGLASS, o)
       /\ IF RemoveReactionRaises(o) THEN ToHandler(Exc(o, FALSE))
          ELSE pc' = "react_add" /\ UNCHANGED turn
  /\ UNCHANGED <<now, fails, parser, updater, procs, msgBusy, procVars, edgeVars>>

\* the reaction and the status of a turn that reached its end
FinalReaction(st) == IF st.is_error THEN ERROR ELSE CHECKMARK

ReportStatus(st) == IF ~st.is_error THEN "completed" ELSE "error"

\* the final reaction, then the report is built and returned
ReactAdd ==
  /\ pc = "react_add"
  /\ \E o \in PlainOutcome :
       /\ React("add", FinalReaction(parser), o)
       /\ IF AddReactionRaises(o) THEN ToHandler(Exc(o, FALSE))
          ELSE /\ pc' = "done"
               /\ turn' = [turn EXCEPT !.report = ReportStatus(parser)]
  /\ UNCHANGED <<now, fails, parser, updater, procs, msgBusy, procVars, edgeVars>>

\* len(str(e)[:200]) for the exceptions of the model
ErrLen(kind) ==
  IF kind = "timeout" THEN 200 ELSE IF kind = "http" THEN 120
  ELSE IF kind = "oserror" THEN 45 ELSE 12

\* f"_Error: {str(e)[:200]}_"
ErrorNotice(e) == Lit("_Error: ", 8) \o Lit(e.kind, ErrLen(e.kind)) \o Lit("_", 1)

\* The outer except clause runs its three chat calls in one try block; whatever
\* one of them raises is swallowed, and the error report is returned.
ReturnError ==
  /\ pc' = "done"
  /\ turn' = [turn EXCEPT !.report = "error"]

HandlerRemove ==
  /\ pc = "except"
  /\ \E o \in PlainOutcome :
       /\ React("remove", HOURGLASS, o)
       /\ IF RemoveReactionRaises(o) THEN ReturnError
          ELSE pc' = "except_add" /\ UNCHANGED turn
  /\ UNCHANGED <<now, fails, parser, updater, procs, msgBusy, procVars, edgeVars>>

HandlerAdd ==
  /\ pc = "except_add"
  /\ \E o \in PlainOutcome :
       /\ React("add", ERROR, o)
       /\ IF AddReactionRaises(o) THEN ReturnError
          ELSE pc' = "except_post" /\ UNCHANGED turn
  /\ UNCHANGED <<now, fails, parser, updater, procs, msgBusy, procVars, edgeVars>>

HandlerPost ==
  /\ pc = "except_post"
  /\ \E o \in PlainOutcome :
       /\ Chat(<<PostCall(ErrorNotice(turn.exc), o)>>)
       /\ ReturnError
  /\ UNCHANGED <<now, reactions, fails, parser, updater, procs, msgBusy, procVars, edgeVars>>

\* ------------------------------------------------ ClaudeProcessor.process

\* self.slack.add_reaction(self.message_ts, "hourglass_flowing_sand"), the files
\* and the message; an empty message is answered at once
ProcBegin ==
  /\ cp.pc = "begin"
  /\ \E o \in PlainOutcome, empty \in BOOLEAN :
       /\ React("add", HOURGLASS, o)
       /\ cp' = [cp EXCEPT !.pc = IF empty THEN "greet" ELSE "launch"]
  /\ UNCHANGED <<fails, clock_ms, turnVars, edgeVars>>

\* self.slack.post("Hey! How can I help you?")
ProcGreet ==
  /\ cp.pc = "greet"
  /\ \E o \in PlainOutcome : Chat(<<MessengerPost(Lit("Hey! How can I help you?", 24), o)>>)
  /\ cp' = [cp EXCEPT !.pc = "finish", !.success = "yes"]
  /\ UNCHANGED <<reactions, fails, clock_ms, turnVars, edgeVars>>

\* _build_cmd: --session-id, or --resume
BuildCmdFlag(use_session_id) == IF use_session_id THEN "session-id" ELSE "resume"

\* _run_claude up to its loop: Popen, the first line read and looked at, and
\* the second Popen when it says "already in use" (the first line is then
\* dropped; otherwise it is the first line processed).  Popen may raise.
ProcLaunch ==
  /\ cp.pc = "launch"
  /\ \E ok \in BOOLEAN, busy \in BOOLEAN, ok2 \in BOOLEAN :
       cp' = IF ~ok
               THEN [cp EXCEPT !.pc = "error", !.flags = <<>>]
             ELSE IF ~busy
               THEN [cp EXCEPT !.pc = "lines", !.flags = <<BuildCmdFlag(TRUE)>>]
             ELSE IF ~ok2
               THEN [cp EXCEPT !.pc = "error", !.flags = <<BuildCmdFlag(TRUE)>>]
             ELSE [cp EXCEPT !.pc = "lines",
                             !.flags = <<BuildCmdFlag(TRUE), BuildCmdFlag(FALSE)>>]
  /\ UNCHANGED <<thread, reactions, calls, fails, clock_ms, turnVars, edgeVars>>

\* _process_line(line) for an assistant record with one piece of text (chunk),
\* or for a line that is skipped (chunk empty: not JSON, or no text)
ProcLine ==
  /\ cp.pc = "lines"
  /\ cp.lines < MaxProcLines
  /\ \E chunk \in Chunks \cup {NoText}, dt \in {0, STREAM_UPDATE_INTERVAL_MS},
        o \in Outcomes(fails) :
       LET before == [cp.s EXCEPT !.text = TCat(@, chunk)]
           d == IF chunk # NoText
                  THEN UpdateStreamIfNeeded(before, FALSE, clock_ms + dt,
                                            Len(thread) + 1, o)
                  ELSE Streamed(cp.s, <<>>, TRUE)
           split == d.s.continuation_count # cp.s.continuation_count
       IN  /\ NumFailed(d.sent) = Failed(o)
           /\ chunk = NoText => dt = 0
           /\ clock_ms' = clock_ms + dt
           /\ fails' = fails + NumFailed(d.sent)
           /\ Chat(d.sent)
           /\ cp' = [cp EXCEPT
                       !.s = d.s,
                       !.lines = @ + 1,
                       !.said = TCat(@, chunk),
                       !.splits = IF split
                                    THEN Append(@, [original |-> before.text,
                                                    sent |-> d.sent,
                                                    rest |-> d.s.text])
                                    ELSE @]
  /\ UNCHANGED <<reactions, turnVars, edgeVars>>

\* the output is closed: process.wait(), whose return code is not looked at
ProcEnd ==
  /\ cp.pc = "lines"
  /\ cp' = [cp EXCEPT !.pc = "finalize", !.attempt = 0]
  /\ UNCHANGED <<thread, reactions, calls, fails, clock_ms, turnVars, edgeVars>>

\* _finalize_stream: nothing when there is no text, else one pass of its loop
\* (a forced _update_stream_if_needed, and time.sleep(1) when it failed)
ProcFinalize ==
  /\ cp.pc = "finalize"
  /\ \E o \in PlainOutcome :
       LET d == IF cp.s.text = NoText THEN Streamed(cp.s, <<>>, TRUE)
                ELSE UpdateStreamIfNeeded(cp.s, TRUE, clock_ms, Len(thread) + 1, o)
           split == d.s.continuation_count # cp.s.continuation_count
       IN  /\ NumFailed(d.sent) = Failed(o)
           /\ Chat(d.sent)
           /\ clock_ms' = IF d.ret THEN clock_ms ELSE clock_ms + 1000
           /\ cp' = [cp EXCEPT
                       !.s = d.s,
                       !.attempt = @ + 1,
                       !.pc = IF d.ret THEN "summary"
                              ELSE IF cp.attempt + 1 < 3 THEN "finalize"
                              ELSE "fallback",
                       !.splits = IF split
                                    THEN Append(@, [original |-> cp.s.text,
                                                    sent |-> d.sent,
                                                    rest |-> d.s.text])
                                    ELSE @]
  /\ UNCHANGED <<reactions, fails, turnVars, edgeVars>>

\* _finalize_stream: the fallback post
ProcFallback ==
  /\ cp.pc = "fallback"
  /\ \E o \in PlainOutcome : Chat(<<MessengerPost(FallbackText(cp.s.text), o)>>)
  /\ cp' = [cp EXCEPT !.pc = "summary"]
  /\ UNCHANGED <<reactions, fails, clock_ms, turnVars, edgeVars>>

\* _send_summary (no tool was used: the statistics alone are posted), after
\* which process() goes on to _finish_reactions(success=True)
ProcSummary ==
  /\ cp.pc = "summary"
  /\ \E o \in PlainOutcome : Chat(<<MessengerPost(Lit("_Stats: ", 8) \o Lit("1.5s", 4)
                                                 \o Lit("_", 1), o)>>)
  /\ cp' = [cp EXCEPT !.pc = "finish", !.success = "yes"]
  /\ UNCHANGED <<reactions, fails, clock_ms, turnVars, edgeVars>>

\* the except clause of process(): self.slack.post(f"Error: {str(e)}")
ProcError ==
  /\ cp.pc = "error"
  /\ \E o \in PlainOutcome :
       Chat(<<MessengerPost(Lit("Error: ", 7) \o Lit("oserror", ErrLen("oserror")), o)>>)
  /\ cp' = [cp EXCEPT !.pc = "finish", !.success = "no"]
  /\ UNCHANGED <<reactions, fails, clock_ms, turnVars, edgeVars>>

\* _finish_reactions(success): both calls are made, whatever the first returns
ProcFinish ==
  /\ cp.pc = "finish"
  /\ \E o1 \in PlainOutcome, o2 \in PlainOutcome :
       LET emoji == IF cp.success = "yes" THEN CHECKMARK ELSE ERROR IN
       /\ calls' = calls \o <<Call("remove", 0, NoText, HOURGLASS, o1),
                              Call("add", 0, NoText, emoji, o2)>>
       /\ reactions' = AddReaction(RemoveReaction(reactions, HOURGLASS, o1), emoji, o2)
  /\ cp' = [cp EXCEPT !.pc = "done"]
  /\ UNCHANGED <<thread, fails, clock_ms, turnVars, edgeVars>>

\* ------------------------------------------------------------ the claims

\* the chat calls that carry a text
IsWrite(c) == c.op \in {"post", "update"}

Writes == {i \in 1..Len(calls) : IsWrite(calls[i])}

OkWrites == {i \in Writes : calls[i].res = "ok"}

Max(S) == CHOOSE x \in S : \A y \in S : y <= x

\* the calls made by updater.finalize
FinCalls == IF turn.fin_over THEN (turn.fin_from + 1)..turn.fin_to
            ELSE IF pc \in {"finalize", "fallback"} THEN (turn.fin_from + 1)..Len(calls)
            ELSE {}

FinUpdates == {i \in FinCalls : calls[i].op = "update"}

FinPosts == {i \in FinCalls : calls[i].op = "post"}

Returned == pc = "done"

\* process_slack_message: whenever the turn returns with status completed, the
\* text last written with success to the thread is the turn's final text: the
\* parser's running text (or the placeholder) followed by the trailer.
TurnFinalTextIsLastWritten ==
  (Returned /\ turn.report = "completed") =>
    /\ OkWrites # {}
    /\ calls[Max(OkWrites)].text = FinalText(parser)
    /\ \E ts \in 1..Len(thread) : thread[ts] = FinalText(parser)

\* a completed turn with running text, one of whose updates failed and whose
\* final text went out by the fallback post
TurnFallbackCompleted ==
  /\ Returned /\ turn.report = "completed"
  /\ parser.current_text # NoText
  /\ fails > 0
  /\ calls[Max(OkWrites)].op = "post"

AllCallsOk == \A i \in 1..Len(calls) : calls[i].res = "ok"

\* C1: if the first agent run signals that the session id is already in use
\* (and no chat call fails), the coordinator retries exactly once, with the
\* resume flag, and the turn then completes (the retry's run being clean); no
\* turn launches the agent more than twice.
C1_RetryOnContention ==
  /\ Len(procs) <= 2
  /\ (Returned /\ Len(procs) >= 1 /\ procs[1].signalled /\ AllCallsOk) =>
       /\ Len(procs) = 2
       /\ procs[2].flag = "resume"
       /\ (procs[2].exit = "exit0" /\ ~parser.is_error) =>
            (turn.report = "completed" /\ CHECKMARK \in reactions)

\* C3: every text sent to the chat surface is at most max_message_length long.
C3_EveryTextWithinLimit ==
  \A i \in Writes : TLen(calls[i].text) <= max_message_length

\* the continuation messages posted
ContinuationPosts ==
  {i \in OkWrites : calls[i].op = "post" /\ calls[i].text # NoText
                    /\ calls[i].text[1].c = "_(continuation "}

\* C4: a text longer than one message and shorter than two (every text of the
\* agent here is) is split once in the whole turn: one continuation message, the
\* message count raised once, however many updates carry the text.
C4_ExactlyOneSplit ==
  /\ updater.message_count <= 2
  /\ Cardinality(ContinuationPosts) <= 1

\* C6: finalize makes at most four update attempts, none after one that
\* succeeded, and once it is over it has posted the text as a new message
\* exactly once if every update attempt failed and not at all otherwise.
C6_FinalizeRetriesThenFallback ==
  /\ Cardinality(FinUpdates) <= 1 + 3
  /\ \A i \in FinUpdates : calls[i].res = "ok" => \A j \in FinCalls : j <= i
  /\ turn.fin_over =>
       Cardinality(FinPosts) =
         (IF \A i \in FinUpdates : calls[i].res # "ok" THEN 1 ELSE 0)

Attempted(op, name) == \E i \in 1..Len(calls) : calls[i].op = op /\ calls[i].name = name

ReactionCallsOk ==
  \A i \in 1..Len(calls) : calls[i].op \in {"add", "remove"} => calls[i].res = "ok"

\* the turn marked the originating message in progress
Marked == calls # <<>> /\ calls[1] = Call("add", 0, NoText, HOURGLASS, "ok")

\* C7: a turn that marked the message in progress has, when it returns, tried
\* to remove the in-progress reaction and to add the success or the failure
\* reaction; when the reaction calls succeeded the message holds no in-progress
\* reaction and exactly one of the two.
C7_ReactionsAlwaysCorrected ==
  (Returned /\ Marked) =>
    /\ Attempted("remove", HOURGLASS)
    /\ Attempted("add", CHECKMARK) \/ Attempted("add", ERROR)
    /\ ReactionCallsOk =>
         /\ HOURGLASS \notin reactions
         /\ Cardinality(reactions \cap {CHECKMARK, ERROR}) = 1

\* C8: a turn that ends with status error because of an exception has tried to
\* post the error notice.
C8_ErrorNoticeAlwaysAttempted ==
  (Returned /\ turn.exc # NoExc) =>
    /\ turn.report = "error"
    /\ \E i \in Writes : calls[i].op = "post" /\ calls[i].text = Norm(ErrorNotice(turn.exc))

NonZeroExit == {"exit1", "exit_busy"}

\* C9: after a non-zero exit the line sequence never ends normally: the
\* executor raises.
C9_NonZeroExitRaises ==
  \A i \in 1..Len(procs) : procs[i].exit \in NonZeroExit => procs[i].ended = "raised"

\* C10: a turn whose (last) agent run failed, by a non-zero exit or a timeout,
\* is reported with status error and is not given the success reaction.
C10_AgentFailureIsTurnFailure ==
  (Returned /\ procs # <<>> /\ procs[Len(procs)].exit \in NonZeroExit \cup {"timeout"}) =>
    (turn.report = "error" /\ CHECKMARK \notin reactions)

\* the messages of the thread that hold text t
Holding(t) == {ts \in 1..Len(thread) : thread[ts] = t}

\* C2: when ClaudeProcessor.process ends a turn as a success (every chat call
\* having succeeded), the agent's latest text, stream_state.text, is in the
\* thread: nothing of it stays unposted.
C2_LatestTextIsWritten ==
  (cp.pc = "done" /\ cp.success = "yes" /\ cp.s.text # NoText /\ AllCallsOk) =>
    Holding(cp.s.text) # {}

\* a text without the marker it begins or ends with
DropPrefix(t, m) ==
  IF Len(t) >= Len(m) /\ SubSeq(t, 1, Len(m)) = m THEN SubSeq(t, Len(m) + 1, Len(t)) ELSE t

DropSuffix(t, m) ==
  IF Len(t) >= Len(m) /\ SubSeq(t, Len(t) - Len(m) + 1, Len(t)) = m
    THEN SubSeq(t, 1, Len(t) - Len(m)) ELSE t

\* C5: at every split of ClaudeProcessor the first part is written to the chat
\* surface, and that text without its truncation marker, followed by the
\* continuation's text without its continuation marker, is the text that was
\* split: no character lost, none twice.
C5_SplitReconstructsOriginal ==
  \A i \in 1..Len(cp.splits) :
    LET sp == cp.splits[i] IN
    /\ sp.sent # <<>>
    /\ TCat(DropSuffix(sp.sent[1].text, ContinuedNext),
            DropPrefix(sp.rest, ContinuationTag(i))) = sp.original

\* where process_slack_message is once an exception reached its except clause
HandlerPcs == {"except", "except_add", "except_post", "done"}

\* C12: process_slack_message lets no exception out: it is never left by a
\* raise, an exception of the agent run or of a chat call is in the hands of the
\* except clause until the turn returns, and a turn that returned reports
\* status completed or error (error when it caught an exception).
C12_NeverPropagates ==
  /\ pc # "raised"
  /\ turn.exc # NoExc => pc \in HandlerPcs
  /\ Returned => /\ turn.report \in {"completed", "error"}
                 /\ turn.exc # NoExc => turn.report = "error"

\* a turn whose agent run timed out and whose except clause met a failing chat
\* call has returned
C12_Witness ==
  /\ Returned
  /\ turn.exc.kind = "timeout"
  /\ calls[Len(calls)].res # "ok"

\* the error notices posted (or tried)
ErrorNotices ==
  {i \in Writes : calls[i].op = "post" /\ calls[i].text # NoText
                   /\ calls[i].text[1].c = "_Error: "}

\* The agent ran and the final update was made, and nothing but reaction calls
\* failed: every post and update succeeded and every agent run launched ended
\* normally with exit status 0, without an error result.
OnlyReactionsFailed ==
  /\ procs # <<>> /\ turn.fin_over
  /\ \A i \in Writes \ ErrorNotices : calls[i].res = "ok"
  /\ \A i \in 1..Len(procs) : procs[i].exit = "exit0" /\ procs[i].ended = "normal"
  /\ ~parser.is_error

\* C13: a reaction call that fails is not escalated: a turn whose agent run and
\* final update succeeded, in which nothing but reaction calls failed, returns
\* status completed and posts no error notice.
C13_ReactionFailureNotEscalated ==
  (Returned /\ OnlyReactionsFailed) =>
    (turn.report = "completed" /\ ErrorNotices = {})

\* an attempt to add the success or the failure reaction failed
FinalAddFailed ==
  \E i \in 1..Len(calls) :
    calls[i].op = "add" /\ calls[i].name \in {CHECKMARK, ERROR} /\ calls[i].res # "ok"

\* C14: a turn whose stream ended with a result event that is no error (and
\* whose chat calls all succeeded) reports status completed and leaves the
\* success reaction alone on the message; and for every returned turn that had
\* marked the message in progress (no attempt to add the final reaction having
\* failed) the status is completed
\* exactly when the success reaction is set and error exactly when the failure
\* reaction is set.
C14_StatusMatchesReaction ==
  /\ (Returned /\ AllCallsOk /\ parser.is_complete /\ ~parser.is_error
        /\ procs[Len(procs)].ended = "normal") =>
       (turn.report = "completed" /\ reactions = {CHECKMARK})
  /\ (Returned /\ Marked /\ ~FinalAddFailed) =>
       /\ turn.report = "completed" <=> CHECKMARK \in reactions
       /\ turn.report = "error" <=> ERROR \in reactions

\* -------------------- execute_claude_streaming, read by a plain for loop

\* what the generator does not touch
execRest == <<pc, now, thread, reactions, calls, fails, parser, updater, turn, msgBusy,
              procVars, edgeVars>>

\* the first step of the generator: the session flags, subprocess.Popen
ExecLaunch ==
  /\ procs = <<>>
  /\ \E has_session_id \in BOOLEAN, has_resume_session \in BOOLEAN, ok \in BOOLEAN :
       LET p == NewProc(SessionFlag(has_session_id, has_resume_session)) IN
       procs' = <<IF ok THEN p ELSE [p EXCEPT !.state = "unstarted", !.ended = "raised"]>>
  /\ UNCHANGED execRest

\* "for line in process.stdout": a line arrives and is yielded
ExecYield ==
  /\ procs # <<>> /\ procs[1].state = "running"
  /\ procs[1].lines < MaxLines
  /\ \E line \in AgentLines(procs[1]) :
       procs' = [procs EXCEPT ![1] =
                   [@ EXCEPT !.lines = @ + 1,
                             !.k = IF line.kind = "text"
                                     THEN CHOOSE k \in 1..Len(AgentTexts) :
                                            AgentTexts[k] = line.text
                                     ELSE @,
                             !.signalled = @ \/ line.kind = "busy"]]
  /\ UNCHANGED execRest

\* the output is closed: process.wait(timeout=SSH_TIMEOUT_SECONDS), the
\* returncode looked at, TimeoutExpired answered by process.kill() and raise
ExecClose ==
  /\ procs # <<>> /\ procs[1].state = "running"
  /\ \E kind \in ExitKinds(procs[1].flag) :
       LET e == WaitRaises(kind, msgBusy) IN
       procs' = [procs EXCEPT ![1] =
                   [@ EXCEPT !.state = ProcessEnd(kind),
                             !.exit = kind,
                             !.ended = IF e # NoExc THEN "raised" ELSE "normal",
                             !.signalled = @ \/ kind = "exit_busy"]]
  /\ UNCHANGED execRest

\* the agent stops writing and neither closes its output nor exits: the read
\* of process.stdout has no timeout, and nothing else runs
ExecHang ==
  /\ procs # <<>> /\ procs[1].state = "running"
  /\ procs' = [procs EXCEPT ![1] = [@ EXCEPT !.state = "hung"]]
  /\ UNCHANGED execRest

NextExec == ExecLaunch \/ ExecYield \/ ExecClose \/ ExecHang

\* The generator's code runs when it can, and an agent that is running writes
\* a line or closes its output (one that does neither is in state "hung").
SpecExec == Init /\ [][NextExec]_vars /\ WF_vars(NextExec)

\* an agent run whose line sequence has not ended for its consumer
RunOpen == procs # <<>> /\ procs[Len(procs)].ended = "open"

\* C11: every agent run terminates: the line sequence of a launched run
\* eventually ends for its consumer, normally or with an error raised (a
\* timeout that kills the process), so the turn is never blocked forever.
C11_EveryRunTerminates == RunOpen ~> ~RunOpen

\* the turn went into the retry: the first loop was left by an exception that
\* holds "already in use"
Retried == turn.use_resume

Placeholder == Lit("...", 3)

PlaceholderPosts ==
  {i \in 1..Len(calls) : calls[i].op = "post" /\ calls[i].text = Placeholder}

FinalAdds ==
  {i \in 1..Len(calls) : calls[i].op = "add" /\ calls[i].name \in {CHECKMARK, ERROR}}

\* the thread holds the bot's placeholder and nothing else
StaleOnly == thread # <<>> /\ \A ts \in 1..Len(thread) : thread[ts] = Placeholder

RetriedTurnRepliesOnce(fair) ==
  (Returned /\ Retried /\ fair) =>
    /\ Cardinality(PlaceholderPosts) = 1
    /\ updater.current_message # 0
    /\ turn.report = "completed" => (turn.fin_over /\ FinCalls # {})
    /\ Cardinality(FinalAdds) <= 1
    /\ (~FinalAddFailed /\ \A i \in Writes : calls[i].res = "ok") =>
         /\ Cardinality(FinalAdds) = 1
         /\ ~StaleOnly

\* C16: a turn that went into the retry still produces a single reply when it
\* returns: the placeholder was posted once by the one updater, which the retry
\* uses too, finalize ran once, and, no message write and no attempt to set the
\* final reaction having failed, the final reaction was set once and the thread
\* holds more than the stale placeholder.
C16_RetriedTurnRepliesOnce == RetriedTurnRepliesOnce(TRUE)

\* the same of the turns all of whose chat calls succeeded
RetriedTurnRepliesOnceIfChatWorks == RetriedTurnRepliesOnce(AllCallsOk)

\* the length of the text last written with success
LastWrittenLen == IF OkWrites = {} THEN 0 ELSE TLen(calls[Max(OkWrites)].text)

\* C17: update(text, force=false) on a started updater makes no chat call
\* unless the time since the last successful write is at least the update
\* interval and the text has at least the minimum number of new characters
\* since that write.  (While the lines are streamed every update is unforced,
\* and the text passed is the updater's pending text after the step.)
C17_UnforcedUpdateThrottled ==
  [][(pc = "stream" /\ updater.current_message # 0 /\ Len(calls') > Len(calls)) =>
       /\ now' - updater.last_update_time >= update_interval
       /\ TLen(updater'.pending_text) - LastWrittenLen >= STREAM_MIN_CHARS]_vars

\* the messages the updater has posted: the posts that succeeded, but for the
\* error notice of the except clause
UpdaterPosts == {i \in OkWrites : calls[i].op = "post"} \ ErrorNotices

\* C18: in every state of a turn after start exactly one message is current (a
\* message of the thread), the messages the updater has posted are as many as
\* its message count (the continuation index + 1), also after a split and after
\* the fallback post of finalize, and the count never decreases.
C18_OneCurrentAndCountMatches ==
  [][/\ updater'.current_message # 0 =>
          /\ updater'.current_message \in 1..Len(thread')
          /\ Cardinality(UpdaterPosts') = updater'.message_count
     /\ updater'.message_count >= updater.message_count]_vars

\* ---------------------------------------------------------------------------
\* The parser alone: ClaudeStreamParser fed any records, and the final text
\* process_slack_message builds from its state
\* ---------------------------------------------------------------------------

\* the tool_use blocks tracked in one turn
MaxTools == 2

ShortText == <<Run("b", 20)>>

\* the content of the assistant records fed to the parser
Contents ==
  { <<TextBlock(AgentTexts[1])>>,
    <<TextBlock(ShortText)>>,
    <<TextBlock(AgentTexts[1]), TextBlock(ShortText)>>,
    <<TextBlock(NoText)>>,
    <<TextBlock(AgentTexts[1]), ToolUseBlock("Bash", Lit("make test", 9)),
      TextBlock(ShortText)>>,
    <<ToolUseBlock("Read", Lit("app.py", 6))>>,
    <<ToolUseBlock("Edit", Lit("app.py", 6))>>,
    <<ToolUseBlock("Write", Lit("app.py", 6))>>,
    <<ToolUseBlock("Bash", Lit("make test", 9))>>,
    <<ToolUseBlock("Grep", Lit("TODO", 4))>> }

\* the stats of the result records fed to the parser
StatsOfResults ==
  { ResultStats(1500, 200, 120, 40), ResultStats(1500, 0, 120, 40),
    ResultStats(1500, 200, 0, 0), ResultStats(0, 0, 0, 0) }

\* the subtypes of the result records fed to the parser ("none": no subtype)
Subtypes == {"none", "success", "error"}

NoiseKinds == {"blank", "notjson", "scalar", "unknown"}

ToolBlocks(content) ==
  Cardinality({i \in 1..Len(content) : content[i].type = "tool_use"})

parseRest == <<pc, now, thread, reactions, calls, fails, updater, procs, turn, msgBusy,
               cp, clock_ms, pipe, loop, gateVars>>

\* parse_line on an assistant record
ParserAssistant ==
  /\ \E content \in Contents :
       /\ Len(parser.tool_notifications) + ToolBlocks(content) <= MaxTools
       /\ parser' = ParseAssistantEvent(parser, content)
       /\ parsed' = ParseCall("assistant", content, FALSE, "none", "assistant")
  /\ UNCHANGED parseRest

\* parse_line on a result record
ParserResult ==
  /\ \E is_error \in BOOLEAN, subtype \in Subtypes, stats \in StatsOfResults :
       /\ parser' = ParseResultEvent(parser, ResultIsError(is_error, subtype), stats)
       /\ parsed' = ParseCall("result", <<>>, is_error, subtype, "result")
  /\ UNCHANGED parseRest

\* parse_line on a line that is no record: a blank line returns None, a
\* JSONDecodeError is caught and None returned, an object of unknown type
\* returns None; JSON that is no object has no get(), and the AttributeError of
\* data.get("type") is not caught
ParserNoise ==
  /\ \E kind \in NoiseKinds :
       parsed' = ParseCall(kind, <<>>, FALSE, "none",
                           IF kind = "scalar" THEN "raised" ELSE "none")
  /\ UNCHANGED <<parser, parseRest>>

NextParse == ParserAssistant \/ ParserResult \/ ParserNoise

SpecParse == Init /\ [][NextParse]_vars

HasRun(t, c) == \E i \in 1..Len(t) : t[i].c = c

\* the final text is base followed by the trailer the parser's state calls for
FinalIsBaseAndTrailer(base) ==
  LET final == FinalText(parser)
      trailer == TDrop(final, TLen(base))
      shown == parser.stats # NoStats
      total == IF shown
                 THEN parser.stats[1].input_tokens + parser.stats[1].output_tokens
                 ELSE 0
  IN  /\ TTake(final, TLen(base)) = base
      /\ trailer = NoText \/ trailer[1].c = "nl"
      /\ HasRun(trailer, "read ") <=> parser.files_read > 0
      /\ HasRun(trailer, "edited ") <=> parser.files_edited > 0
      /\ HasRun(trailer, "wrote ") <=> parser.files_written > 0
      /\ HasRun(trailer, "ran ") <=> parser.commands_run > 0
      /\ (HasRun(trailer, " search") \/ HasRun(trailer, " searches"))
           <=> parser.searches > 0
      /\ HasRun(trailer, "Done: ")
           <=> (parser.files_read + parser.files_edited + parser.files_written
                  + parser.commands_run + parser.searches > 0)
      /\ HasRun(trailer, "$") <=> (shown /\ parser.stats[1].total_cost_e4 # 0)
      /\ HasRun(trailer, " tokens") <=> (shown /\ total # 0)
      /\ \A i \in 1..Len(trailer) :
           trailer[i].c = " tokens" => (i > 1 /\ trailer[i - 1].c = ToString(total))

\* C15 as stated: the final chat text is the running text followed by the
\* trailer: a summary naming exactly the nonzero categories among reads, edits,
\* writes, commands and searches (none when all are zero) and a stats line with
\* the cost only when nonzero and the total tokens, input plus output, only
\* when nonzero. Stated of a turn whose result record has been handled.
C15_RunningTextThenTrailer ==
  parser.is_complete => FinalIsBaseAndTrailer(parser.current_text)

\* C15, amended: the final chat text is the running text, or "_(No response)_"
\* when the running text is empty, followed by that trailer.
C15_ShownTextThenTrailer ==
  parser.is_complete =>
  FinalIsBaseAndTrailer(IF parser.current_text # NoText THEN parser.current_text
                        ELSE NoResponse)

C15_Witness ==
  /\ parser.is_complete
  /\ parser.current_text # NoText
  /\ parser.stats = <<ResultStats(1500, 0, 120, 40)>>
  /\ parser.commands_run = 2 /\ parser.files_read = 0
  /\ HasRun(FinalText(parser), "160")
  /\ HasRun(FinalText(parser), "ran ")
  /\ ~HasRun(FinalText(parser), "$")

\* C19: the length of the running text never decreases from one parsed line to
\* the next until the result record has marked the turn complete, whatever the
\* lines are.
C19_TextLengthNeverDecreases ==
  [][~parser.is_complete =>
       TLen(parser'.current_text) >= TLen(parser.current_text)]_vars

HasTextBlock(content) == \E i \in 1..Len(content) : content[i].type = "text"

\* C20 as stated: whatever the earlier records were, after an assistant record
\* that has text blocks current_text is the concatenation, in order, of the text
\* blocks of that record only.
C20_SetToTextOfRecord ==
  \A content \in Contents :
    HasTextBlock(content) =>
      ParseAssistantEvent(parser, content).current_text = JoinTextParts(content)

\* C20, amended: it is so when the text blocks of the record are not all empty;
\* a record whose text blocks are all empty leaves current_text as it was.
C20_SetToNonEmptyTextOfRecord ==
  \A content \in Contents :
    /\ JoinTextParts(content) # NoText =>
         ParseAssistantEvent(parser, content).current_text = JoinTextParts(content)
    /\ JoinTextParts(content) = NoText =>
         ParseAssistantEvent(parser, content).current_text = parser.current_text

\* the record with two text blocks was handled after a record with another text
C20_Witness ==
  /\ parser.current_text = TCat(AgentTexts[1], ShortText)
  /\ parser.tool_notifications = <<>>
  /\ ParseAssistantEvent(parser, <<TextBlock(ShortText)>>).current_text = ShortText

\* C21: parsing a result record marks the turn complete and sets is_error
\* exactly when the record is flagged is_error or its subtype is the error
\* subtype; a record that is neither leaves is_error false.
C21_ResultSetsCompleteAndError ==
  parsed.kind = "result" =>
    /\ parser.is_complete
    /\ parser.is_error <=> (parsed.is_error \/ parsed.subtype = "error")

\* a result record not flagged is_error, of subtype error, was parsed
C21_Witness ==
  /\ parsed.kind = "result" /\ ~parsed.is_error /\ parsed.subtype = "error"
  /\ parser.is_complete /\ parser.is_error

\* C22: for a line that is blank, is no valid JSON, or decodes to something
\* other than a record of a known type (a number, a string, an array, null, an
\* object of unknown type), parse_line returns no event, does not raise, and
\* leaves the parser's state as it was.
C22_NoiseIsSkipped ==
  [][parsed'.kind \in NoiseKinds => (parsed'.ret = "none" /\ parser' = parser)]_vars

\* ---------------------------------------------------------------------------
\* The loop over the agent's lines, step by step
\* ---------------------------------------------------------------------------

\* the lines one agent run writes
MaxPipe == 4

\* the state the loop's steps leave alone
loopRest == <<pc, now, thread, reactions, calls, fails, parser, updater, procs, turn,
              msgBusy, cp, clock_ms, parsed, gateVars>>

\* the agent, a process of its own, writes its next line to its stdout
AgentWrites ==
  /\ loop.written < MaxPipe
  /\ pipe' = Append(pipe, loop.written + 1)
  /\ loop' = [loop EXCEPT !.written = @ + 1]
  /\ UNCHANGED loopRest

\* the generator resumed: "for line in process.stdout" takes the next line of
\* the pipe and yields it
LoopReads ==
  /\ loop.at = "read" /\ pipe # <<>>
  /\ pipe' = Tail(pipe)
  /\ loop' = [loop EXCEPT !.at = "handle", !.line = Head(pipe),
                          !.read = Append(@, Head(pipe))]
  /\ UNCHANGED loopRest

\* a chat call that is sent without its answer being waited for
Dispatched == "read"

\* where the thread is once SlackClient has sent a request: httpx.Client is
\* synchronous, the thread waits in the call for the response
AfterSend == "call"

\* the body of the loop: parse_line, and for an assistant event with text
\* updater.update, which makes a chat call or (throttled) none
LoopHandles ==
  /\ loop.at = "handle"
  /\ \E sends \in BOOLEAN :
       loop' = [loop EXCEPT !.at = IF sends THEN AfterSend ELSE "read",
                            !.handled = Append(@, loop.line),
                            !.issued = IF sends THEN Append(@, loop.line) ELSE @,
                            !.inflight = IF sends THEN @ + 1 ELSE @]
  /\ UNCHANGED <<pipe, loopRest>>

\* the response of the chat call arrives (or the call fails, the warning is
\* logged): update returns, the loop asks the generator for the next line
LoopCallReturns ==
  /\ loop.at = "call"
  /\ loop' = [loop EXCEPT !.at = "read", !.inflight = @ - 1]
  /\ UNCHANGED <<pipe, loopRest>>

NextLoop == AgentWrites \/ LoopReads \/ LoopHandles \/ LoopCallReturns

SpecLoop == Init /\ [][NextLoop]_vars

\* C23: the lines are handled in the order the agent wrote them, the parsing
\* and the chat call of line k are done before line k+1 is read, and no two
\* chat calls of the turn are in flight at once.
C23_LinesHandledInOrder ==
  /\ loop.read = [i \in 1..Len(loop.read) |-> i]
  /\ loop.at = "handle" => loop.handled = SubSeq(loop.read, 1, Len(loop.read) - 1)
  /\ loop.at # "handle" => loop.handled = loop.read
  /\ \A i \in 1..Len(loop.issued) : \E j \in 1..Len(loop.handled) :
       loop.handled[j] = loop.issued[i]
  /\ loop.inflight <= 1
  /\ loop.at = "handle" => loop.inflight = 0

\* three lines were read, handled and shown by a chat call, each in its turn
C23_Witness ==
  /\ loop.issued = <<1, 2, 3>> /\ loop.handled = <<1, 2, 3>>
  /\ loop.at = "read" /\ loop.inflight = 0

\* ---------------------------------------------------------------------------
\* RateLimiter
\* ---------------------------------------------------------------------------

\* RateLimiter(max_requests, window_seconds): the limiter's two parameters
max_requests == 2

window_seconds == 3

\* the is_allowed calls of one run
MaxChecks == 5

\* the filter with a request as old as the window kept
KeptInclusive(requests, t) ==
  LET InWindow(ts) == ts >= t - window_seconds IN SelectSeq(requests, InWindow)

\* [ts for ts in entry.requests if ts > cutoff], cutoff = now - window_seconds
Kept(requests, t) ==
  LET InWindow(ts) == ts > t - window_seconds IN SelectSeq(requests, InWindow)

\* is_allowed up to the assignment of the filtered list: now and the entry are
\* read and the list is filtered
IsAllowedEnter(key, t, requests) ==
  [at |-> "assign", key |-> key, t |-> t, kept |-> Kept(requests, t)]

\* is_allowed with the request recorded before the count is tested
RecordThenTest(c, requests) ==
  IF c.at = "assign"
    THEN [c |-> [c EXCEPT !.at = "test"], requests |-> Append(c.kept, c.t), ret |-> "none"]
  ELSE IF Len(requests) > max_requests
    THEN [c |-> Idle, requests |-> requests, ret |-> "rejected"]
  ELSE [c |-> Idle, requests |-> requests, ret |-> "admitted"]

\* the next statement of is_allowed for a caller c, on the requests the key's
\* entry holds: "assign", entry.requests = the filtered list; "test",
\* len(entry.requests) >= max_requests, return False; "append",
\* entry.requests.append(now), return True.  ret is "none" while the call goes on.
IsAllowedStep(c, requests) ==
  IF c.at = "assign"
    THEN [c |-> [c EXCEPT !.at = "test"], requests |-> c.kept, ret |-> "none"]
  ELSE IF c.at = "test"
    THEN IF Len(requests) >= max_requests
           THEN [c |-> Idle, requests |-> requests, ret |-> "rejected"]
           ELSE [c |-> [c EXCEPT !.at = "append"], requests |-> requests, ret |-> "none"]
  ELSE [c |-> Idle, requests |-> Append(requests, c.t), ret |-> "admitted"]

\* the statements of one call, run to its return
RECURSIVE IsAllowedRun(_, _)
IsAllowedRun(c, requests) ==
  LET d == IsAllowedStep(c, requests)
  IN  IF d.ret # "none" THEN d ELSE IsAllowedRun(d.c, d.requests)

Checked(key, t, ret) == [key |-> key, t |-> t, ok |-> ret = "admitted"]

limitRest == <<pc, thread, reactions, calls, fails, parser, updater, procs, turn, msgBusy,
               cp, clock_ms, parsed, pipe, loop, queue, hooked, upload>>

\* is_allowed(key), called with no other call in progress; the clock has not
\* moved, or moved by a second, or by the window
LimiterCheck ==
  /\ Len(checks) < MaxChecks
  /\ \E key \in Keys, dt \in {0, 1, window_seconds} :
       LET d == IsAllowedRun(IsAllowedEnter(key, now + dt, entries[key]), entries[key])
       IN  /\ now' = now + dt
           /\ entries' = [entries EXCEPT ![key] = d.requests]
           /\ checks' = Append(checks, Checked(key, now + dt, d.ret))
  /\ UNCHANGED <<callers, limitRest>>

NextLimit == LimiterCheck

SpecLimit == Init /\ [][NextLimit]_vars

\* a thread calls is_allowed while other calls may be in progress
RaceEnter(th) ==
  /\ callers[th] = Idle
  /\ Len(checks) + Cardinality({x \in Threads : callers[x] # Idle}) < MaxChecks
  /\ \E key \in Keys, dt \in {0, 1} :
       /\ now' = now + dt
       /\ callers' = [callers EXCEPT ![th] = IsAllowedEnter(key, now + dt, entries[key])]
  /\ UNCHANGED <<entries, checks, limitRest>>

\* a thread executes the next statement of its call
RaceStep(th) ==
  /\ callers[th] # Idle
  /\ LET c == callers[th]
         d == IsAllowedStep(c, entries[c.key])
     IN  /\ callers' = [callers EXCEPT ![th] = d.c]
         /\ entries' = [entries EXCEPT ![c.key] = d.requests]
         /\ checks' = IF d.ret = "none" THEN checks
                      ELSE Append(checks, Checked(c.key, c.t, d.ret))
  /\ UNCHANGED <<now, limitRest>>

NextRace == \E th \in Threads : RaceEnter(th) \/ RaceStep(th)

SpecRace == Init /\ [][NextRace]_vars

\* the checks before check j that were admitted for its key within the window
\* that ends with it
AdmittedBefore(j) ==
  {i \in 1..(j - 1) : /\ checks[i].key = checks[j].key /\ checks[i].ok
                      /\ checks[i].t > checks[j].t - window_seconds}

\* C24: for one key a check is admitted exactly when fewer than max earlier
\* checks were admitted within the window that ends with it: of max+1 checks
\* within one window the first max are admitted and the last is rejected, and
\* once the window has elapsed since the admissions the key is admitted again.
C24_WindowAdmitsMax ==
  \A j \in 1..Len(checks) :
    checks[j].ok <=> Cardinality(AdmittedBefore(j)) < max_requests

\* max+1 checks of one key within a window, the last rejected, and the key
\* admitted again when the window had elapsed since the admissions
C24_Witness ==
  /\ Len(checks) = max_requests + 2
  /\ \A j \in 1..Len(checks) : checks[j].key = checks[1].key
  /\ \A j \in 1..max_requests : checks[j].ok
  /\ ~checks[max_requests + 1].ok
  /\ checks[max_requests + 1].t - checks[1].t < window_seconds
  /\ checks[max_requests + 2].ok
  /\ checks[max_requests + 2].t - checks[max_requests].t = window_seconds

\* how often a timestamp is in a key's list
Count(requests, ts) == Cardinality({i \in 1..Len(requests) : requests[i] = ts})

\* the time of the last check of a key, -1 when it had none
LastChecked(key) ==
  LET S == {i \in 1..Len(checks) : checks[i].key = key}
  IN  IF S = {} THEN -1 ELSE checks[Max(S)].t

\* C25: after any sequence of is_allowed calls with a clock that does not go
\* back, each key's list holds at most max timestamps, each of them greater
\* than now - window as of the key's last check; a rejected check records
\* nothing and an admitted check records exactly one timestamp, its own now
\* (what was recorded before stays if it is within the window, and goes if not).
C25_WindowHoldsAdmissions ==
  [][/\ \A key \in Keys :
          /\ Len(entries'[key]) <= max_requests
          /\ \A i \in 1..Len(entries'[key]) :
               entries'[key][i] > LastChecked(key)' - window_seconds
     /\ Len(checks') > Len(checks) =>
          LET c == checks'[Len(checks')] IN
          /\ \A key \in Keys \ {c.key} : entries'[key] = entries[key]
          /\ \A ts \in 0..now' :
               Count(entries'[c.key], ts) =
                 (IF ts > c.t - window_seconds THEN Count(entries[c.key], ts) ELSE 0)
                 + (IF c.ok /\ ts = c.t THEN 1 ELSE 0)]_vars

\* a key was rejected, its list full, the oldest request pruned before
C25_Witness ==
  /\ Len(checks) >= max_requests + 2
  /\ ~checks[Len(checks)].ok
  /\ Len(entries[checks[Len(checks)].key]) = max_requests
  /\ \E i \in 1..Len(checks) :
       /\ checks[i].ok /\ checks[i].key = checks[Len(checks)].key
       /\ Count(entries[checks[i].key], checks[i].t) = 0

\* C26: whatever the interleaving of the statements of concurrent is_allowed
\* calls, no more than max requests of a key are admitted within one window,
\* and no admission is lost: once no call is in progress every admission of a
\* key made within the window of its last check is in the key's list.
C26_SafeUnderConcurrentChecks ==
  /\ \A j \in 1..Len(checks) :
       Cardinality({i \in 1..Len(checks) :
                      /\ checks[i].key = checks[j].key /\ checks[i].ok
                      /\ checks[i].t > checks[j].t - window_seconds
                      /\ checks[i].t <= checks[j].t}) <= max_requests
  /\ (\A th \in Threads : callers[th] = Idle) =>
       \A i \in 1..Len(checks) :
         (checks[i].ok /\ checks[i].t > LastChecked(checks[i].key) - window_seconds) =>
           Count(entries[checks[i].key], checks[i].t) >=
             Cardinality({k \in 1..Len(checks) :
                            /\ checks[k].ok /\ checks[k].key = checks[i].key
                            /\ checks[k].t = checks[i].t})


\* ---------------------------------------------------------------------------
\* Attachments: extract_files
\* ---------------------------------------------------------------------------

\* SUPPORTED_EXTENSIONS = IMAGE_EXTENSIONS | PDF_EXTENSIONS, each a sequence of
\* characters
SUPPORTED_EXTENSIONS ==
  { <<".", "p", "n", "g">>, <<".", "j", "p", "g">>, <<".", "j", "p", "e", "g">>,
    <<".", "g", "i", "f">>, <<".", "w", "e", "b", "p">>, <<".", "p", "d", "f">> }

\* the size cap of extract_files, 10 * 1024 * 1024 bytes
SizeCap == 10485760

\* the files extract_files looks at: files_data[:5]
FileLimit == 5

\* the attachments of one message
MaxFiles == 7

\* ext = "." + name.rsplit(".", 1)[-1].lower() if "." in name else "": the
\* part behind the last "." of the name, in lower case (str.lower() on the
\* letters of the names used), and empty for a name with no "."
Ext(name) ==
  LET Lower(ch) == CASE ch = "P" -> "p" [] ch = "N" -> "n" [] ch = "G" -> "g" [] OTHER -> ch
      Dots == {i \in 1..Len(name) : name[i] = "."}
      LastDot == IF Dots = {} THEN 0 ELSE Max(Dots)
  IN  IF LastDot = 0 THEN <<>>
      ELSE <<".">> \o [i \in 1..(Len(name) - LastDot) |-> Lower(name[LastDot + i])]

\* the whole list, with no limit on the number of files
AllFiles(files_data) == files_data

\* files_data[:5]
FirstFiles(files_data) == SubSeq(files_data, 1, Min2(FileLimit, Len(files_data)))

\* one pass of the loop of extract_files: the file is skipped when its
\* extension is not supported or its size is over the cap
Accepted(file_data) ==
  /\ Ext(file_data.name) \in SUPPORTED_EXTENSIONS
  /\ ~(file_data.size > SizeCap)

\* extract_files(files_data): the accepted files of the first five, in order
extract_files(files_data) == SelectSeq(FirstFiles(files_data), Accepted)

\* the kinds of files a message carries: a supported image, one named in
\* capitals whose size is the cap, a PDF behind a second dot that is over the
\* cap, a text file whose name holds a supported extension, a name with no dot
FileKinds ==
  { [name |-> <<"a", ".", "p", "n", "g">>, size |-> 1024],
    [name |-> <<"b", ".", "P", "N", "G">>, size |-> SizeCap],
    [name |-> <<"e", ".", "t", "x", "t", ".", "p", "d", "f">>, size |-> SizeCap + 1],
    [name |-> <<"d", ".", "p", "n", "g", ".", "t", "x", "t">>, size |-> 1024],
    [name |-> <<"p", "n", "g">>, size |-> 1024] }

\* a file of the list: its id is its position in the message
SlackFile(id, kind) == [id |-> id, name |-> kind.name, size |-> kind.size]

fileRest == <<pc, thread, now, reactions, calls, fails, parser, updater, procs, turn, msgBusy,
              cp, clock_ms, parsed, pipe, loop, entries, checks, callers, queue, hooked>>

\* the sender attaches one more file to the message
Attach ==
  /\ ~upload.done
  /\ Len(upload.files_data) < MaxFiles
  /\ \E kind \in FileKinds :
       upload' = [upload EXCEPT
                    !.files_data = Append(@, SlackFile(Len(upload.files_data) + 1, kind))]
  /\ UNCHANGED fileRest

\* extract_files is called with the files of the message
ExtractFiles ==
  /\ ~upload.done
  /\ upload' = [upload EXCEPT !.valid_files = extract_files(upload.files_data),
                              !.done = TRUE]
  /\ UNCHANGED fileRest

NextFiles == Attach \/ ExtractFiles

SpecFiles == Init /\ [][NextFiles]_vars

\* the positions of the unsupported files of a list
Unsupported(files_data) ==
  {i \in 1..Len(files_data) : Ext(files_data[i].name) \notin SUPPORTED_EXTENSIONS}

\* C28: extract_files accepts at most five files of any list, none with an
\* unsupported extension and none over the size cap, whatever its position, and
\* the accepted files are files of the list in the order of the list.
C28_AcceptsFiveSupportedInOrder ==
  upload.done =>
    /\ Len(upload.valid_files) <= 5
    /\ \A i \in 1..Len(upload.valid_files) :
         LET f == upload.valid_files[i] IN
         /\ Ext(f.name) \in SUPPORTED_EXTENSIONS
         /\ f.size <= SizeCap
         /\ f.id \in 1..Len(upload.files_data)
         /\ upload.files_data[f.id] = f
    /\ \A i, j \in 1..Len(upload.valid_files) :
         i < j => upload.valid_files[i].id < upload.valid_files[j].id

\* seven files, two of them unsupported and one over the cap among the first
\* five, a supported one left out behind the fifth, and files accepted
C28_Witness ==
  /\ upload.done
  /\ Len(upload.files_data) = 7
  /\ Cardinality(Unsupported(upload.files_data)) = 2
  /\ \E i \in 1..5 : upload.files_data[i].size > SizeCap
  /\ \E i \in 6..7 : Accepted(upload.files_data[i])
  /\ Len(upload.valid_files) >= 2


\* ---------------------------------------------------------------------------
\* The webhook: slack_webhook
\* ---------------------------------------------------------------------------

\* an absent field of a request (Python's None)
None == "None"

\* the requests of one run
MaxHooks == 3

FILTERED_SUBTYPES ==
  { "bot_message", "message_changed", "message_deleted", "channel_join", "channel_leave",
    "channel_topic", "channel_purpose", "channel_name", "channel_archive",
    "channel_unarchive", "group_join", "group_leave", "group_topic", "group_purpose",
    "group_name", "group_archive", "group_unarchive", "file_comment", "file_mention",
    "pinned_item", "unpinned_item" }

\* uuid.uuid5(uuid.NAMESPACE_DNS, key): the SHA-1 hash of namespace and name,
\* taken as free of collisions, so that the UUID stands for the pair it hashes
Uuid5(key) == [namespace |-> "NAMESPACE_DNS", name |-> key]

\* a session id that depends on team and channel alone
ChannelSessionId(team_id, channel_id, thread_ts) ==
  Uuid5(team_id \o "-" \o channel_id \o "-" \o "main")

\* key = f"{team_id}-{channel_id}-{thread_ts or 'main'}"; uuid5(NAMESPACE_DNS, key)
generate_session_id(team_id, channel_id, thread_ts) ==
  Uuid5(team_id \o "-" \o channel_id \o "-" \o
          (IF thread_ts \in {None, ""} THEN "main" ELSE thread_ts))

\* every message passes the filter
ProcessAnyMessage(event_data) == [process |-> TRUE, reason |-> "user_message"]

\* should_process_message(event_data) -> (should_process, reason)
should_process_message(event_data) ==
  IF event_data.subtype \in FILTERED_SUBTYPES
    THEN [process |-> FALSE, reason |-> "filtered_subtype"]
  ELSE IF event_data.bot_id # ""
    THEN [process |-> FALSE, reason |-> "bot_message"]
  ELSE IF event_data.subtype = "file_share"
    THEN [process |-> TRUE, reason |-> "file_share"]
  ELSE IF event_data.subtype = None
    THEN [process |-> TRUE, reason |-> "user_message"]
  ELSE [process |-> FALSE, reason |-> "unknown_subtype"]

\* re.sub(r"<@[A-Z0-9]+>", "", text).strip(): the mentions are taken out, then
\* the white space at both ends.  A text is a sequence of pieces: mentions
\* <@...> in capitals and digits, a mention in small letters (no match of
\* <@[A-Z0-9]+>), blanks and words.
strip_mentions(text) ==
  LET NotMention(piece) == piece \notin {"<@U0BOT>", "<@U456>"}
      t == SelectSeq(text, NotMention)
      Solid == {i \in 1..Len(t) : t[i] # " "}
  IN  IF Solid = {} THEN <<>>
      ELSE SubSeq(t, CHOOSE i \in Solid : \A k \in Solid : i <= k, Max(Solid))

\* get_bot_config(channel_id): BOT_CONFIGS.get(channel_id), a registry with
\* one channel; the record with no name stands for None
get_bot_config(channel_id) ==
  IF channel_id = "C1" THEN [name |-> "Testing", working_dir |-> "/home/paulo"]
  ELSE [name |-> None, working_dir |-> None]

\* slack_webhook for the request req at time t, the limiter holding ents: the
\* response, the tasks handed to process_slack_message.delay, the limiter's
\* entries after it, and the is_allowed calls it made
slack_webhook(req, t, ents) ==
  LET Respond(status, content) ==
        [status |-> status, content |-> content, tasks |-> <<>>, entries |-> ents,
         checked |-> <<>>]
  IN
  IF req.secret /\ ~req.signed THEN Respond(401, "Invalid signature")
  ELSE IF req.type = "url_verification" THEN Respond(200, req.challenge)
  ELSE IF req.event_type # "message" THEN Respond(200, "")
  ELSE IF ~should_process_message(req).process THEN Respond(200, "")
  ELSE IF req.user = "" THEN Respond(200, "")
  ELSE IF get_bot_config(req.channel).name = None THEN Respond(200, "")
  ELSE
    LET bot_config == get_bot_config(req.channel)
        rate_key == req.channel \o ":" \o req.user
        d == IsAllowedRun(IsAllowedEnter(rate_key, t, ents[rate_key]), ents[rate_key])
        text == strip_mentions(req.text)
        files == extract_files(req.files)
        event == [team_id |-> req.team_id, channel_id |-> req.channel, user_id |-> req.user,
                  text |-> text, ts |-> req.ts, thread_ts |-> req.thread_ts, files |-> files]
        task == [event |-> event,
                 session_id |-> generate_session_id(event.team_id, event.channel_id,
                                                    event.thread_ts),
                 working_dir |-> bot_config.working_dir, bot_name |-> bot_config.name]
        Limited(tasks) ==
          [status |-> 200, content |-> "", tasks |-> tasks,
           entries |-> [ents EXCEPT ![rate_key] = d.requests],
           checked |-> <<Checked(rate_key, t, d.ret)>>]
    IN  IF d.ret # "admitted" THEN Limited(<<>>)
        ELSE IF text = <<>> /\ req.files = <<>> THEN Limited(<<>>)
        ELSE Limited(<<task>>)

\* a message of a user in the configured channel, signed, with a mention
BaseMessage ==
  [secret |-> TRUE, signed |-> TRUE, type |-> "event_callback", challenge |-> "",
   team_id |-> "T1", event_type |-> "message", subtype |-> None, bot_id |-> "",
   user |-> "U1", channel |-> "C1", text |-> <<"<@U456>", " ", "Hello bot">>,
   ts |-> "1234567890.123456", thread_ts |-> None, files |-> <<>>]

\* a text of words behind a mention, a text of mentions and blanks alone, a
\* text whose mention is in small letters
Texts ==
  { <<"<@U456>", " ", "Hello bot">>, <<" ", "<@U0BOT>", " ">>, <<"<@bot>">> }

\* no attachment, or an image
FileLists == { <<>>, <<SlackFile(1, [name |-> <<"a", ".", "p", "n", "g">>, size |-> 1024])>> }

ThreadAnchors == {"1234567890.000100", "1234567890.000200"}

\* the requests of this model, in the order of the handler's tests: a request
\* whose signature does not verify, with and without a signing secret
\* configured; the URL verification; an event that is no message; filtered and
\* unknown subtypes; bot messages; a message with no user; a message in a
\* channel with no bot; user messages with and without text left and
\* attachments; messages of two teams in and out of threads; a message of a
\* second user
Requests ==
  {[BaseMessage EXCEPT !.secret = s, !.signed = FALSE] : s \in BOOLEAN}
  \cup {[BaseMessage EXCEPT !.type = "url_verification", !.challenge = "test-challenge-token"]}
  \cup {[BaseMessage EXCEPT !.event_type = "reaction_added"]}
  \cup {[BaseMessage EXCEPT !.subtype = st] :
          st \in {"message_deleted", "channel_join", "thread_broadcast"}}
  \cup {[BaseMessage EXCEPT !.bot_id = "B123", !.subtype = st] :
          st \in {None, "file_share", "bot_message"}}
  \cup {[BaseMessage EXCEPT !.user = ""]}
  \cup {[BaseMessage EXCEPT !.channel = "C9"]}
  \cup {[BaseMessage EXCEPT !.subtype = st, !.text = tx, !.files = fs] :
          st \in {None, "file_share"}, tx \in Texts, fs \in FileLists}
  \cup {[BaseMessage EXCEPT !.team_id = tm, !.thread_ts = th] :
          tm \in {"T1", "T2"}, th \in {None} \cup ThreadAnchors}
  \cup {[BaseMessage EXCEPT !.user = "U2"]}

hookRest == <<pc, thread, reactions, calls, fails, parser, updater, procs, turn, msgBusy,
              cp, clock_ms, parsed, pipe, loop, callers, upload>>

\* Slack posts a request, a second after the one before; the handler runs to
\* its response (handlers of one event loop run one at a time up to their
\* return, there is no await between the limiter's check and the enqueueing)
Hook ==
  /\ hooked.n < MaxHooks
  /\ \E req \in Requests :
       LET r == slack_webhook(req, now + 1, entries)
       IN  /\ now' = now + 1
           /\ entries' = r.entries
           /\ checks' = checks \o r.checked
           /\ queue' = queue \o r.tasks
           /\ hooked' = [n |-> hooked.n + 1, req |-> req, status |-> r.status,
                         content |-> r.content,
                         admitted |-> r.checked # <<>> /\ r.checked[1].ok]
  /\ UNCHANGED hookRest

NextHook == Hook

SpecHook == Init /\ [][NextHook]_vars


\* C27: the session id is a function of team, channel and thread anchor: tasks
\* with the same three have the same id, a task with no thread anchor has the
\* id of the key "<team>-<channel>-main", and tasks of one team and channel
\* with two different thread anchors have different ids.
C27_SessionIdOfTeamChannelAnchor ==
  \A i, j \in 1..Len(queue) :
    LET a == queue[i].event
        b == queue[j].event
    IN  /\ (a.team_id = b.team_id /\ a.channel_id = b.channel_id
              /\ a.thread_ts = b.thread_ts) =>
             queue[i].session_id = queue[j].session_id
        /\ a.thread_ts = None =>
             queue[i].session_id = Uuid5(a.team_id \o "-" \o a.channel_id \o "-main")
        /\ (a.team_id = b.team_id /\ a.channel_id = b.channel_id
              /\ a.thread_ts \in ThreadAnchors /\ b.thread_ts \in ThreadAnchors
              /\ a.thread_ts # b.thread_ts) =>
             queue[i].session_id # queue[j].session_id

\* tasks of one team and channel in two threads, one of them twice, and a task
\* outside any thread
C27_Witness ==
  \E i, j, k \in 1..Len(queue) :
    /\ i # j
    /\ queue[i].event.team_id = queue[j].event.team_id
    /\ queue[i].event.thread_ts \in ThreadAnchors
    /\ queue[j].event.thread_ts \in ThreadAnchors
    /\ queue[i].event.thread_ts # queue[j].event.thread_ts
    /\ queue[k].event.thread_ts = None

\* a user message as the webhook is to take it: a message event with no
\* subtype or file_share, no bot id, a user id, and text left after the
\* mentions are stripped, or attached files
IsUserMessage(req) ==
  /\ req.type = "event_callback"
  /\ req.event_type = "message"
  /\ req.subtype \in {None, "file_share"}
  /\ req.bot_id = ""
  /\ req.user # ""
  /\ (strip_mentions(req.text) # <<>> \/ req.files # <<>>)

\* what a request does to the queue and the chat: one task of the request's
\* message when it is a user message that the limiter admitted, nothing
\* otherwise; no chat call, no reaction, no message in either case
EnqueuesOnceIfAdmitted ==
  /\ IF IsUserMessage(hooked'.req) /\ hooked'.admitted
       THEN /\ Len(queue') = Len(queue) + 1
            /\ SubSeq(queue', 1, Len(queue)) = queue
            /\ LET e == queue'[Len(queue')].event IN
               /\ e.user_id = hooked'.req.user
               /\ e.channel_id = hooked'.req.channel
               /\ e.text = strip_mentions(hooked'.req.text)
       ELSE queue' = queue
  /\ calls' = calls
  /\ thread' = thread
  /\ reactions' = reactions

C30_OneNotificationPerTarget ==
  \A i, j \in 1..Len(parser.tool_notifications) :
    (i # j /\ parser.tool_notifications[i][1].c # "_Running: ") =>
      parser.tool_notifications[i] # parser.tool_notifications[j]


\* ---------------------------------------------------------------------------
\* ClaudeProcessor._process_tool_use
\* ---------------------------------------------------------------------------

\* a tool_use item: the parts of its name between "__" (one part for a plain
\* name) and the text of the input the tool's branch reads (file_path with no
\* directory, command, pattern, url with no "/", query, description); the
\* first piece of a command is its first word with the blank behind it
ToolItem(name, input) == [name |-> name, input |-> input]

ToolItems ==
  { ToolItem(<<"Read">>, Lit("app.py", 6)), ToolItem(<<"Edit">>, Lit("app.py", 6)),
    ToolItem(<<"Write">>, Lit("new.py", 6)),
    ToolItem(<<"Bash">>, Lit("make ", 5) \o Lit("test", 4)),
    ToolItem(<<"Bash">>, Lit("ls ", 3) \o Lit("-la", 3)),
    ToolItem(<<"Glob">>, Lit("*.py", 4)), ToolItem(<<"Grep">>, Lit("TODO", 4)),
    ToolItem(<<"WebFetch">>, Lit("example.com", 11)),
    ToolItem(<<"TodoWrite">>, NoText),
    ToolItem(<<"mcp", "github", "search">>, NoText) }

\* _process_tool_use(item) on the processor p at time tnow: the processor after
\* it and the chat calls made.  A text added to stream_state.text is followed
\* by a forced _update_stream_if_needed; the other notices are slack.post calls.
\* (In the literals ' stands for the backquote of the source.)
ProcessToolUse(p, item, tnow, nextTs, o) ==
  LET tool_name == item.name[1]
      Inc(field) == [p EXCEPT !.stats[field] = @ + 1]
      Quiet(q) == [p |-> q, sent |-> <<>>]
      Say(q, text) ==
        LET d == UpdateStreamIfNeeded([q.s EXCEPT !.text = TCat(@, text)], TRUE, tnow,
                                      nextTs, o)
        IN  [p |-> [q EXCEPT !.s = d.s], sent |-> d.sent]
      Post(q, text) == [p |-> q, sent |-> <<MessengerPost(Norm(text), o)>>]
      Once(q, key, text) ==
        IF key \in q.reported THEN Quiet(q)
        ELSE Post([q EXCEPT !.reported = @ \cup {key}], text)
      skip_prefixes == {"cat ", "head ", "tail ", "ls ", "pwd", "echo ", "grep ", "find "}
  IN
  IF Len(item.name) = 1 /\ tool_name = "Edit" THEN
       IF item.input = NoText \/ <<"file", item.input>> \in p.reported THEN Quiet(Inc("edits"))
       ELSE Say([Inc("edits") EXCEPT !.reported = @ \cup {<<"file", item.input>>}],
                Lit("\n_Editing '", 11) \o item.input \o Lit("'..._\n", 6))
  ELSE IF Len(item.name) = 1 /\ tool_name = "Write" THEN
       IF item.input = NoText \/ <<"file", item.input>> \in p.reported THEN Quiet(Inc("writes"))
       ELSE Say([Inc("writes") EXCEPT !.reported = @ \cup {<<"file", item.input>>}],
                Lit("\n_Creating '", 12) \o item.input \o Lit("'..._\n", 6))
  ELSE IF Len(item.name) = 1 /\ tool_name = "Read" THEN Quiet(Inc("reads"))
  ELSE IF Len(item.name) = 1 /\ tool_name = "Bash" THEN
       IF item.input = NoText \/ item.input[1].c \in skip_prefixes THEN Quiet(p)
       ELSE Say(Inc("commands"),
                Lit("\n_Running '", 11)
                  \o (IF TLen(item.input) > 50 THEN TTake(item.input, 50) \o Lit("...", 3)
                      ELSE item.input)
                  \o Lit("'..._\n", 6))
  ELSE IF Len(item.name) = 1 /\ tool_name = "Glob" THEN
       IF item.input = NoText THEN Quiet(Inc("globs"))
       ELSE Once(Inc("globs"), <<"action", "glob">>,
                 Lit("Searching for files '", 21) \o item.input \o Lit("'...", 4))
  ELSE IF Len(item.name) = 1 /\ tool_name = "Grep" THEN
       IF item.input = NoText THEN Quiet(Inc("greps"))
       ELSE Once(Inc("greps"), <<"action", "grep">>,
                 Lit("Searching in files for '", 24) \o TTake(item.input, 30) \o Lit("'...", 4))
  ELSE IF Len(item.name) = 1 /\ tool_name = "WebFetch" THEN
       IF item.input = NoText THEN Quiet(Inc("web_fetches"))
       ELSE Post(Inc("web_fetches"), Lit("Fetching '", 10) \o item.input \o Lit("'...", 4))
  ELSE IF Len(item.name) = 1 /\ tool_name = "WebSearch" THEN
       IF item.input = NoText THEN Quiet(Inc("web_searches"))
       ELSE Post(Inc("web_searches"),
                 Lit("Searching the web: '", 20)
                   \o (IF TLen(item.input) > 40 THEN TTake(item.input, 40) \o Lit("...", 3)
                       ELSE item.input)
                   \o Lit("'...", 4))
  ELSE IF Len(item.name) = 1 /\ tool_name = "Task" THEN
       Post(Inc("tasks"), Lit("Spawning agent: ", 16)
                              \o (IF item.input = NoText THEN Lit("agent task", 10)
                                  ELSE item.input)
                              \o Lit("...", 3))
  ELSE IF Len(item.name) > 1 /\ tool_name = "mcp" THEN
       IF Len(item.name) < 3 THEN Quiet(Inc("mcp_calls"))
       ELSE Once(Inc("mcp_calls"), <<"action", "mcp_" \o item.name[2]>>,
                 Lit("Calling ", 8) \o Lit(item.name[2], 6) \o Lit(": ", 2)
                   \o Lit(item.name[3], 6) \o Lit("...", 3))
  ELSE Quiet(p)

\* _process_line on an assistant record with one tool_use item, the processor
\* being fed items alone
ProcToolUse ==
  /\ cp.pc = "begin"
  /\ Len(cp.items) < MaxTools
  /\ \E item \in ToolItems, o \in PlainOutcome :
       LET d == ProcessToolUse(cp, item, clock_ms, Len(thread) + 1, o)
       IN  /\ Chat(d.sent)
           /\ cp' = [d.p EXCEPT !.items = Append(@, item)]
  /\ UNCHANGED <<reactions, fails, clock_ms, turnVars, edgeVars>>

NextTools == ProcToolUse

SpecTools == Init /\ [][NextTools]_vars

\* the count the claim gives a tool name: "" for a name that has none
CountOfKind(name) ==
  IF Len(name) > 1 THEN ""
  ELSE CASE name[1] = "Read" -> "reads" [] name[1] = "Edit" -> "edits"
         [] name[1] = "Write" -> "writes" [] name[1] = "Bash" -> "commands"
         [] name[1] \in {"Glob", "Grep"} -> "searches" [] OTHER -> ""

\* the five counts of a ProcessStats, searches being globs and greps
FiveCounts(stats) ==
  [reads |-> stats.reads, edits |-> stats.edits, writes |-> stats.writes,
   commands |-> stats.commands, searches |-> stats.globs + stats.greps]

\* C31: each tool_use item raises exactly the one count of its kind by one
\* (Read reads, Edit edits, Write writes, Bash commands, Glob and Grep
\* searches) and leaves the other counts as they were; an item with any other
\* name changes none of the counts and still produces a notification.
C31_OneCountPerToolKind ==
  [][Len(cp'.items) > Len(cp.items) =>
       LET item == cp'.items[Len(cp'.items)]
           kind == CountOfKind(item.name)
       IN  /\ \A f \in DOMAIN FiveCounts(cp.stats) :
                FiveCounts(cp'.stats)[f] = FiveCounts(cp.stats)[f] + (IF f = kind THEN 1 ELSE 0)
           /\ kind = "" => (calls' # calls \/ cp'.s.text # cp.s.text)]_vars


\* ---------------------------------------------------------------------------
\* StreamingSlackUpdater.update fed texts alone: the cut point of a split
\* ---------------------------------------------------------------------------

\* the texts handed to update: a short one, and texts longer than one message
\* with a newline 50 characters before max_message_length - 100, with a space
\* there, with no white space at all, and with a newline 900 characters before
SplitTexts ==
  { <<Run("a", 60)>>,
    <<Run("a", 38850), Run("nl", 1), Run("b", 300)>>,
    <<Run("a", 38850), Run("sp", 1), Run("b", 300)>>,
    <<Run("a", 39200)>>,
    <<Run("a", 38000), Run("nl", 1), Run("b", 1100)>> }

\* the chat calls of one run of updates
MaxSplitCalls == 4

\* the window before the cut-off in which _split_and_continue looks for a space
TailWindow == 100

splitRest == <<pc, reactions, fails, parser, procs, turn, msgBusy, cp, clock_ms, edgeVars>>

\* update(text), the chat surface answering every call; the clock has not
\* moved, or moved by the update interval
UpdaterSplits ==
  /\ Len(calls) < MaxSplitCalls
  /\ \E text \in SplitTexts, dt \in {0, update_interval} :
       LET d == UpdaterUpdate(updater, text, FALSE, now + dt, Len(thread) + 1, "ok", "ok")
       IN  /\ now' = now + dt
           /\ updater' = d.u
           /\ Chat(d.sent)
  /\ UNCHANGED splitRest

NextSplit == UpdaterSplits

SpecSplit == Init /\ [][NextSplit]_vars

\* C32: when the updater splits a text, the cut point is the last newline in
\* the window before the cut-off if there is one, otherwise the last space in
\* the window, otherwise the cut-off itself, and never beyond the size limit.
C32_CutAtLastNewlineOrSpace ==
  [][(updater.message_count >= 1 /\ updater'.message_count > updater.message_count) =>
       LET text == updater'.pending_text
           cut == TLen(calls'[Len(calls) + 1].text) - TLen(ContinuedMarker)
           hard == max_message_length - SplitMargin
           newline_pos == TRFind(text, "nl", hard - TailWindow, hard)
           space_pos == TRFind(text, "sp", hard - TailWindow, hard)
       IN  /\ cut <= max_message_length
           /\ cut = (IF newline_pos > 0 THEN newline_pos
                     ELSE IF space_pos > 0 THEN space_pos ELSE hard)]_vars


\* ---------------------------------------------------------------------------
\* chat failures while the stream is shown
\* ---------------------------------------------------------------------------

\* the chat calls the step made, one of them failed
FailedCallInStep ==
  \E i \in (Len(calls) + 1)..Len(calls') : calls'[i].res # "ok"

\* C33: a chat call that fails while a line of the stream is shown (a plain
\* update, or the update or the post of a split) does not end the turn: the
\* coordinator stays in the loop over the agent's lines and no exception
\* reaches its except clauses.
C33_StreamSurvivesChatFailure ==
  [][(pc = "stream" /\ FailedCallInStep) =>
       (pc' = "stream" /\ turn'.exc = NoExc /\ turn'.block = turn.block)]_vars


\* ---------------------------------------------------------------------------
\* the session flag of a launch
\* ---------------------------------------------------------------------------

\* C34: every launch of the agent carries exactly one session flag, the
\* new-session flag on the first attempt and the resume flag on the retry; no
\* command line holds both, and when a session id and a resume id are both
\* supplied the resume flag is the one used.
C34_OneSessionFlagPerLaunch ==
  [][Len(procs') > Len(procs) =>
       LET args == LaunchArgs(turn.block, turn.use_resume)
       IN  /\ Len(procs') <= 2
           /\ Len(args) = 1
           /\ args[1] = (IF Len(procs) = 0 THEN "session-id" ELSE "resume")
           /\ procs'[Len(procs')].flag = args[1]
           /\ \A s, r \in BOOLEAN :
                /\ Len(SessionArgs(s, r)) <= 1
                /\ r => SessionArgs(s, r) = <<"resume">>]_vars

C34_Witness ==
  /\ Len(procs) = 2
  /\ procs[1].flag = "session-id"
  /\ procs[2].flag = "resume"
  /\ procs[2].state = "running"


\* ---------------------------------------------------------------------------
\* what the thread shows of the agent's text
\* ---------------------------------------------------------------------------

\* the characters of a text that are the agent's (the texts of the agent are
\* runs of "a" and "b"; markers, headers, notifications and trailers are not)
RECURSIVE AgentChars(_)
AgentChars(t) ==
  IF t = <<>> THEN 0
  ELSE (IF Head(t).c \in {"a", "b"} THEN Head(t).n ELSE 0) + AgentChars(Tail(t))

\* the agent's characters the messages of a thread show
RECURSIVE ShownAgent(_)
ShownAgent(th) == IF th = <<>> THEN 0 ELSE AgentChars(Head(th)) + ShownAgent(Tail(th))

\* C35: no write shrinks the amount of agent text the thread shows, and a turn
\* that returns completed has posted no more messages than the first one, the
\* finalize fallback and one per full message length of its final text.
C35_ShownTextGrowsMessagesBounded ==
  [][/\ ShownAgent(thread') >= ShownAgent(thread)
     /\ (pc' = "done" /\ turn'.report = "completed") =>
          Len(thread') <= 2 + TLen(turn'.final_text) \div (max_message_length - SplitMargin)]_vars


\* ---------------------------------------------------------------------------
\* reactions: SlackClient and SlackMessenger against the chat surface
\* ---------------------------------------------------------------------------

ReactionNames == {HOURGLASS, CHECKMARK, ERROR}

\* what goes wrong with a request apart from the state of the reactions:
\* nothing, an error answer of the chat surface, a failing HTTP exchange
Faults == {"none", "ratelimited", "http"}

\* the reaction calls of one run
MaxReacts == 3

\* the chat surface's answer to reactions.add and reactions.remove
Answer(rs, op, name, fault) ==
  IF fault # "none" THEN fault
  ELSE IF op = "add" /\ name \in rs THEN "already_reacted"
  ELSE IF op = "remove" /\ name \notin rs THEN "no_reaction"
  ELSE "ok"

\* SlackClient.add_reaction and remove_reaction: True, or the exception of
\* _request raised again
ClientReaction(op, answer) ==
  IF answer = "ok" THEN "True"
  ELSE IF op = "add" /\ answer = "already_reacted" THEN "True"
  ELSE IF op = "remove" /\ answer = "no_reaction" THEN "True"
  ELSE "raise"

\* SlackMessenger.add_reaction and remove_reaction: response.json().get("ok",
\* False), and False after any exception
MessengerReaction(op, answer) == IF answer = "ok" THEN "True" ELSE "False"

reactRest == <<pc, now, thread, fails, parser, updater, procs, turn, msgBusy, cp, clock_ms, edgeVars>>

\* one reaction call: who made it, the surface's answer, what the caller got
ReactionCall(by, op, name) ==
  /\ Len(calls) < MaxReacts
  /\ \E fault \in Faults :
       LET answer == Answer(reactions, op, name, fault)
           res == IF by = "client" THEN ClientReaction(op, answer)
                  ELSE MessengerReaction(op, answer)
       IN  /\ calls' = Append(calls, [op |-> op, ts |-> 0, text |-> NoText, name |-> name,
                                      res |-> res, by |-> by, answer |-> answer])
           /\ reactions' = IF answer # "ok" THEN reactions
                           ELSE IF op = "add" THEN reactions \cup {name}
                           ELSE reactions \ {name}
  /\ UNCHANGED reactRest

ClientAdd == \E name \in ReactionNames : ReactionCall("client", "add", name)

ClientRemove == \E name \in ReactionNames : ReactionCall("client", "remove", name)

MessengerAdd == \E name \in ReactionNames : ReactionCall("messenger", "add", name)

MessengerRemove == \E name \in ReactionNames : ReactionCall("messenger", "remove", name)

NextReact == ClientAdd \/ ClientRemove \/ MessengerAdd \/ MessengerRemove

SpecReact == Init /\ [][NextReact]_vars

\* C36: a reaction call that meets no error other than "already applied" (for
\* an add) or "not present" (for a remove) returns success without raising and
\* leaves the reaction applied (removed), whether or not it was before; a call
\* that meets any other error reports a failure and changes nothing.
C36_ReactionsIdempotent ==
  [][Len(calls') > Len(calls) =>
       LET c == calls'[Len(calls')]
       IN  IF c.answer \in {"ok", "already_reacted", "no_reaction"}
             THEN /\ c.res = "True"
                  /\ reactions' = (IF c.op = "add" THEN reactions \cup {c.name}
                                   ELSE reactions \ {c.name})
             ELSE /\ c.res \in {"False", "raise"}
                  /\ reactions' = reactions]_vars


\* ---------------------------------------------------------------------------
\* the report of a run that wrote no result record
\* ---------------------------------------------------------------------------

\* C37: a turn returns completed, and the success reaction is added, only
\* when the parser has seen a result record (is_complete).
C37_CompletedOnlyAfterResult ==
  /\ (pc = "done" /\ turn.report = "completed") => parser.is_complete
  /\ (pc \in {"react_add", "done"} /\ CHECKMARK \in reactions) => parser.is_complete


\* ---------------------------------------------------------------------------
\* what the retried run inherits
\* ---------------------------------------------------------------------------

\* C38: nothing parsed during the first attempt is carried over a retry: as
\* long as no line of the retried run has been read the parser holds no text,
\* no counts, no notifications and no error flag, and a retried run that
\* writes nothing ends in the final text of an empty turn.
C38_RetryStartsFromEmptyState ==
  (Len(procs) = 2 /\ procs[2].lines = 0) =>
    /\ parser = NewParserState
    /\ pc \in {"finalize", "fallback", "react_remove", "react_add", "done"} =>
         turn.final_text = FinalText(NewParserState)


\* ---------------------------------------------------------------------------
\* the loop body of process_slack_message: one record parsed and shown
\* ---------------------------------------------------------------------------

\* the clock of a run of the loop body
MaxShowTime == 2

\* the content of the assistant records of a run of the loop body: a text, an
\* empty text block, two records of one tool_use block, and text blocks around
\* a tool_use block
ShownContents ==
  { <<TextBlock(AgentTexts[1])>>,
    <<TextBlock(NoText)>>,
    <<ToolUseBlock("Read", Lit("app.py", 6))>>,
    <<ToolUseBlock("Bash", Lit("make test", 9))>>,
    <<TextBlock(AgentTexts[1]), ToolUseBlock("Bash", Lit("make test", 9)),
      TextBlock(ShortText)>> }

\* every assistant event shown, with or without text
ShowsAlways(event, text) == event = "assistant"

\* parsed.type == EventType.ASSISTANT and parsed.text
Shows(event, text) == event = "assistant" /\ text # NoText

showRest == <<pc, reactions, fails, procs, turn, msgBusy, cp, clock_ms, pipe, loop, gateVars>>

\* updater.start("...")
ShowStart ==
  /\ updater.current_message = 0
  /\ LET d == UpdaterStart(updater, Lit("...", 3), now, Len(thread) + 1, "ok")
     IN  updater' = d.u /\ Chat(d.sent)
  /\ UNCHANGED <<now, parser, parsed, showRest>>

\* what the loop body does with the event that parse_line returned; time
\* passes on the events that are shown
ShowEvent(event, text, call) ==
  /\ parsed' = call
  /\ \E dt \in {0, 1} :
       LET d == IF Shows(event, text)
                  THEN UpdaterUpdate(updater, DisplayText(parser', text), FALSE,
                                     now + dt, Len(thread) + 1, "ok", "ok")
                  ELSE Did(updater, <<>>, "none")
       IN  /\ ~Shows(event, text) => dt = 0
           /\ now + dt <= MaxShowTime
           /\ now' = now + dt
           /\ updater' = d.u
           /\ Chat(d.sent)
  /\ UNCHANGED showRest

\* an assistant record
ShowAssistant ==
  /\ updater.current_message # 0
  /\ \E content \in ShownContents :
       /\ Len(parser.tool_notifications) + ToolBlocks(content) <= MaxTools
       /\ parser' = ParseAssistantEvent(parser, content)
       /\ ShowEvent("assistant", JoinTextParts(content),
                    ParseCall("assistant", content, FALSE, "none", "assistant"))

\* a system record or a user record (a tool result)
ShowOther ==
  /\ updater.current_message # 0
  /\ \E kind \in {"system", "user"} :
       LET line == LineOf(kind, NoText, "", FALSE, NoStats)
       IN  /\ parser' = ParseState(parser, line)
           /\ ShowEvent(ParseEvent(line), NoText,
                        ParseCall(kind, <<>>, FALSE, "none", ParseEvent(line)))

NextShow == ShowStart \/ ShowAssistant \/ ShowOther

SpecShow == Init /\ [][NextShow]_vars

Alive == {i \in 1..Len(procs) : procs[i].state \in {"running", "hung"}}

\* C40: at most one agent process of a turn is alive at any time (the first
\* has exited or been killed when the retry is launched), and none is alive
\* when the turn has returned.
C40_AtMostOneAgentAlive ==
  /\ Cardinality(Alive) <= 1
  /\ pc = "done" => Alive = {}

Next ==
  \/ TaskBegin \/ TaskStart \/ Launch \/ StreamLine \/ StreamEnd \/ AgentHangs
  \/ Finalize \/ FinalizeFallback \/ ReactRemove \/ ReactAdd
  \/ HandlerRemove \/ HandlerAdd \/ HandlerPost

Spec == Init /\ [][Next]_vars

NextProc ==
  \/ ProcBegin \/ ProcGreet \/ ProcLaunch \/ ProcLine \/ ProcEnd
  \/ ProcFinalize \/ ProcFallback \/ ProcSummary \/ ProcError \/ ProcFinish

SpecProc == Init /\ [][NextProc]_vars

====
